---- MODULE Spec2Model ----
(***************************************************************************)
(* A model of the decision-and-dispatch core of the zap logging library   *)
(* snapshot: Level and LevelEnabler, the Core variants, the pooled        *)
(* CheckedEntry write protocol and the Logger.check entry point.          *)
(*                                                                         *)
(* The module holds several specifications over one set of variables.     *)
(* Each specification drives one part of the library and leaves the       *)
(* variables of the other parts at their initial values:                  *)
(*   Spec        the CheckedEntry pool protocol (AddCore, After, Write)   *)
(*   SpecLogger  Logger.check followed by CheckedEntry.Write              *)
(*   SpecCore    ioCore.Write, multiCore.Write, multiCore.Sync            *)
(*   SpecChecked  Check on a tee of leaf cores, then CheckedEntry.Write     *)
(*   SpecFilter  NewIncreaseLevelCore                                     *)
(*   SpecIncrease  NewIncreaseLevelCore on AtomicLevels, then SetLevel     *)
(*   SpecTree    Check, Level, Enabled and Write on composed cores         *)
(*   SpecAtomic  concurrent SetLevel, Level and Enabled on an AtomicLevel  *)
(*   SpecWith    NewCore, ioCore.With, Check and Write on a shared level   *)
(*   SpecLevels  LevelOf, Level.Enabled, MarshalText and UnmarshalText     *)
(*   SpecMultiWrite  multiWriteSyncer.Write                                *)
(*   SpecBuffer  buffer.Buffer: the appends, Reset and TrimNewline         *)
(*   SpecLocked  concurrent Write and Sync on a lockedWriteSyncer          *)
(*   SpecRaise   CheckedEntry.Write after the level has been raised        *)
(*   SpecLazy    With and the other methods on cores as objects, and       *)
(*               concurrent calls on a lazyWithCore                        *)
(*   SpecNest    Check and Enabled on nested cores, lazy cores included    *)
(*   SpecRace    the unsynchronized methods of a lazyWithCore               *)
(*   SpecValue   concurrent Store and Load on an atomic.Value              *)
(***************************************************************************)
EXTENDS Integers, Sequences, FiniteSets, TLC

(***************************************************************************)
(* Bounds of the model.                                                    *)
(***************************************************************************)
\* goroutines that may hold a *CheckedEntry handle at the same time
NThreads == 2
\* distinct Core objects, and so the cap on len(ce.cores): a Core is added
\* to one CheckedEntry at most once
NCores == 2
\* the room of the heap of cores
HeapMax == 8

(***************************************************************************)
(* Level: type Level int8 and its constants.                               *)
(***************************************************************************)
DebugLevel == -1
InfoLevel == 0
WarnLevel == 1
ErrorLevel == 2
DPanicLevel == 3
PanicLevel == 4
FatalLevel == 5
minLevel == DebugLevel
maxLevel == FatalLevel
InvalidLevel == maxLevel + 1
Levels == minLevel..maxLevel

\* faulty variant: the threshold itself is not enabled
LevelEnabledAbove(l, lvl) == lvl > l

\* func (l Level) Enabled(lvl Level) bool { return lvl >= l }
LevelEnabled(l, lvl) == lvl >= l

(***************************************************************************)
(* Values.                                                                 *)
(***************************************************************************)
\* a nil pointer or nil interface value
Nil == 0
Threads == 1..NThreads
Cores == 1..NCores

\* Entry{}: the zero Entry has Level 0 (InfoLevel) and the empty Message
ZeroEntry == [Level |-> 0, Message |-> 0]
MkEntry(lvl, msg) == [Level |-> lvl, Message |-> msg]

\* CheckWriteAction values, a user-defined CheckWriteHook, and the nil hook
WriteThenNoop == "WriteThenNoop"
WriteThenGoexit == "WriteThenGoexit"
WriteThenPanic == "WriteThenPanic"
WriteThenFatal == "WriteThenFatal"
UserHook == "UserHook"
NilHook == "nil"
CheckWriteActions == {WriteThenNoop, WriteThenGoexit, WriteThenPanic, WriteThenFatal}
Hooks == CheckWriteActions \cup {UserHook}

(***************************************************************************)
(* State.  _cePool may hold any number of CheckedEntry instances; every    *)
(* CheckedEntry method touches its receiver and the pool only, so the      *)
(* model follows one instance: ce.  A Get that hands out another instance  *)
(* does not change ce and is no step of the model.                         *)
(***************************************************************************)
VARIABLES
    ce,       \* the instance: Entry, ErrorOutput, dirty, after, cores
    allocd,   \* the pool's New function has allocated the instance
    pooled,   \* how many times the instance sits in _cePool
    owner,    \* the thread of the latest getCheckedEntry that returned it
    holds,    \* the threads that hold a handle (*CheckedEntry) to it
    wrote,    \* whether the thread has called Write on the handle it holds
    halted,   \* os.Exit has been called
    given,    \* history: what the callers passed in since the latest Get
    last,     \* the call made by the last step and what it did
    logger,   \* the Logger whose methods are called, Nil when none is
    atom,     \* the atomic.Int32 behind each AtomicLevel
    passed,   \* history: the levels passed to SetLevel on each AtomicLevel
    calls,    \* the AtomicLevel call each thread is in, and what it loaded
    encs,     \* the encoders: the context fields each one holds
    built,    \* the cores constructed so far
    buf,      \* a Buffer: its bytes and the capacity of its slice
    appended, \* history: what was appended to the Buffer since the latest Reset,
              \* and whether TrimNewline has removed a byte since then
    mu,       \* the Mutex of a lockedWriteSyncer: the thread that holds it
    inside,   \* the threads inside a call of the wrapped WriteSyncer
    lazy,     \* a lazyWithCore: its Core, its fields and its Once
    vp        \* an atomic.Value: its typ and data words, and history

\* the variables of the Buffer, the lockedWriteSyncer, the lazyWithCore and
\* the atomic.Value
extra == <<buf, appended, mu, inside, lazy, vp>>

vars ==
    <<ce, allocd, pooled, owner, holds, wrote, halted, given, last, logger,
      atom, passed, calls, encs, built,
      buf, appended, mu, inside, lazy, vp>>

\* pool.New: &CheckedEntry{cores: make([]Core, 4)}, four nil cores
NewCheckedEntry ==
    [Entry |-> ZeroEntry, ErrorOutput |-> FALSE, dirty |-> FALSE,
     after |-> NilHook, cores |-> <<Nil, Nil, Nil, Nil>>]

\* faulty variant: reset leaves the dirty flag as it is
resetKeepsDirty(c) ==
    [Entry |-> ZeroEntry, ErrorOutput |-> FALSE, dirty |-> c.dirty,
     after |-> NilHook, cores |-> <<>>]

\* func (ce *CheckedEntry) reset()
reset(c) ==
    [Entry |-> ZeroEntry, ErrorOutput |-> FALSE, dirty |-> FALSE,
     after |-> NilHook, cores |-> <<>>]

NoCall == [op |-> "none"]

\* nothing passed in yet: the entry of the acquiring call, the cores passed to
\* AddCore, the hook last passed to After, whether Write has been called, and
\* whether an After call has replaced the hook of an earlier After call
NothingGiven ==
    [Entry |-> ZeroEntry, cores |-> <<>>, hook |-> NilHook, written |-> FALSE,
     replaced |-> FALSE]

\* the AtomicLevels of the model, each with a cell of its own
AtomicLevels == {"a", "b"}
NoCallIn == [op |-> "idle"]

\* no lazyWithCore: Core is the wrapped core, done and m are the state of its
\* Once; runs, touched, first and made are history: how often the function
\* given to Once.Do has run, whether With or Check has been called, the core
\* NewLazyWith was given and the core the Once put in its place
NoLazyWith ==
    [Core |-> Nil, fields |-> <<>>, done |-> FALSE, m |-> Nil,
     runs |-> 0, touched |-> FALSE, first |-> Nil, made |-> Nil]

\* the zero atomic.Value: both words nil; stored and loaded are history: the
\* data words the Store calls have written, and whether a Load has returned
\* a value other than nil
ZeroValue == [typ |-> "nil", data |-> Nil, stored |-> {}, loaded |-> FALSE]

\* NewAtomicLevel stores InfoLevel; no call is in progress, no encoder and no
\* core has been constructed; the Buffer is the zero Buffer, the Mutex is
\* unlocked and no lazyWithCore has been built
InitRest ==
    /\ atom = [a \in AtomicLevels |-> InfoLevel]
    /\ passed = [a \in AtomicLevels |-> {}]
    /\ calls = [t \in Threads |-> NoCallIn]
    /\ encs = <<>>
    /\ built = <<>>
    /\ buf = [bs |-> <<>>, cap |-> 0]
    /\ appended = [pieces |-> <<>>, trimmed |-> FALSE]
    /\ mu = Nil
    /\ inside = {}
    /\ lazy = NoLazyWith
    /\ vp = ZeroValue

InitCE ==
    /\ ce = NewCheckedEntry
    /\ allocd = FALSE
    /\ pooled = 0
    /\ owner = Nil
    /\ holds = [t \in Threads |-> FALSE]
    /\ wrote = [t \in Threads |-> FALSE]
    /\ halted = FALSE
    /\ given = NothingGiven
    /\ last = NoCall

(***************************************************************************)
(* The CheckedEntry pool: _cePool, getCheckedEntry, putCheckedEntry.       *)
(***************************************************************************)
\* _cePool.Get() can return the instance: it rests in the pool, or New
\* allocates it now
PoolHasIt == pooled > 0 \/ ~allocd

\* faulty variant: the instance is handed out as the pool held it
getCheckedEntryAsPooled(c) == c

\* func getCheckedEntry(): ce := _cePool.Get(); ce.reset(); return ce
getCheckedEntry(c) == reset(c)

\* func putCheckedEntry(ce): if ce == nil { return }; _cePool.Put(ce)
putCheckedEntry(n, isNil) == IF isNil THEN n ELSE n + 1

\* the bookkeeping of the _cePool.Get() by thread t that returned the instance
Taken(t) ==
    /\ allocd' = TRUE
    /\ pooled' = IF pooled > 0 THEN pooled - 1 ELSE pooled
    /\ owner' = t
    /\ holds' = [holds EXCEPT ![t] = TRUE]

(***************************************************************************)
(* func (ce *CheckedEntry) AddCore(ent Entry, core Core) *CheckedEntry     *)
(* c: the instance; isNil: the receiver is a nil handle, and c is what the *)
(* pool hands out.                                                         *)
(***************************************************************************)
\* faulty variant: the core is put in front of the list
AddCoreOnPrepends(c, isNil, ent, core) ==
    LET got == IF isNil THEN [getCheckedEntry(c) EXCEPT !.Entry = ent] ELSE c
    IN  [got EXCEPT !.cores = <<core>> \o @]

AddCoreOn(c, isNil, ent, core) ==
    LET got == IF isNil THEN [getCheckedEntry(c) EXCEPT !.Entry = ent] ELSE c
    IN  [got EXCEPT !.cores = Append(@, core)]

(***************************************************************************)
(* func (ce *CheckedEntry) After(ent Entry, hook CheckWriteHook)           *)
(* Should(ent, should) is After(ent, should).                              *)
(***************************************************************************)
\* faulty variant: a hook that is set is kept
AfterOnKeepsHook(c, isNil, ent, hook) ==
    LET got == IF isNil THEN [getCheckedEntry(c) EXCEPT !.Entry = ent] ELSE c
    IN  [got EXCEPT !.after = IF @ = NilHook THEN hook ELSE @]

AfterOn(c, isNil, ent, hook) ==
    LET got == IF isNil THEN [getCheckedEntry(c) EXCEPT !.Entry = ent] ELSE c
    IN  [got EXCEPT !.after = hook]

\* the entry of the log statement of thread t, and the fields it passes to
\* Write: each goroutine logs a message and fields of its own
EntryOf(t) == MkEntry(ErrorLevel, t)
FieldsOf(t) == t

Range(s) == {s[j] : j \in 1..Len(s)}

\* what the history records of a call on the handle of thread t
Recorded(t, ent) == IF holds[t] THEN given ELSE [NothingGiven EXCEPT !.Entry = ent]

AddCore(t, ent, core) ==
    /\ ~halted
    /\ ~wrote[t]
    /\ IF holds[t]
       THEN /\ core \notin Range(ce.cores)
            /\ UNCHANGED <<allocd, pooled, owner, holds, extra>>
       ELSE /\ PoolHasIt
            /\ Taken(t)
    /\ ce' = AddCoreOn(ce, ~holds[t], ent, core)
    /\ given' = [Recorded(t, ent) EXCEPT !.cores = Append(@, core)]
    /\ last' = NoCall
    /\ UNCHANGED <<atom, passed, calls, encs, built, logger, wrote, halted, extra>>

After(t, ent, hook) ==
    /\ ~halted
    /\ ~wrote[t]
    /\ IF holds[t]
       THEN UNCHANGED <<allocd, pooled, owner, holds, extra>>
       ELSE /\ PoolHasIt
            /\ Taken(t)
    /\ ce' = AfterOn(ce, ~holds[t], ent, hook)
    /\ LET g == Recorded(t, ent)
       IN  given' = [g EXCEPT !.hook = hook,
                              !.replaced = g.replaced \/ g.hook \notin {NilHook, hook}]
    /\ last' = NoCall
    /\ UNCHANGED <<atom, passed, calls, encs, built, logger, wrote, halted, extra>>

\* ce.ErrorOutput = log.errorOutput: the exported field is set by the caller
SetErrorOutput(t) ==
    /\ ~halted
    /\ ~wrote[t]
    /\ holds[t]
    /\ ~ce.ErrorOutput
    /\ ce' = [ce EXCEPT !.ErrorOutput = TRUE]
    /\ last' = NoCall
    /\ UNCHANGED <<atom, passed, calls, encs, built, logger, allocd, pooled, owner, holds, wrote, halted, given, extra>>

(***************************************************************************)
(* Errors.  An error value is the sequence of the leaf errors it combines, *)
(* the nil error is the empty sequence: multierr.Append(left, right).      *)
(***************************************************************************)
NoErr == <<>>
multierrAppend(left, right) == left \o right

(***************************************************************************)
(* ioCore.Write(ent, fields).  The encoder and the sink are collaborators: *)
(* encFails, outFails and syncFails are their answers.  The result is the  *)
(* calls made on them, in order, and the error returned (e names it).      *)
(***************************************************************************)
\* faulty variant: the sink is synced from ErrorLevel on
ioCoreWriteSyncsFromError(ent, e, encFails, outFails, syncFails) ==
    IF encFails
    THEN [calls |-> <<"EncodeEntry">>, err |-> <<e>>]
    ELSE IF outFails
    THEN [calls |-> <<"EncodeEntry", "out.Write", "buf.Free">>, err |-> <<e>>]
    ELSE IF ent.Level >= ErrorLevel
    THEN [calls |-> <<"EncodeEntry", "out.Write", "buf.Free", "out.Sync">>,
          err |-> NoErr]
    ELSE [calls |-> <<"EncodeEntry", "out.Write", "buf.Free">>, err |-> NoErr]

\* faulty variant: Write looks at the level again and skips a disabled entry
ioCoreWriteRechecksLevel(ent, e, encFails, outFails, syncFails) ==
    IF \E a \in DOMAIN atom : ent.Level < atom[a]
    THEN [calls |-> <<>>, err |-> NoErr]
    ELSE IF encFails
    THEN [calls |-> <<"EncodeEntry">>, err |-> <<e>>]
    ELSE IF outFails
    THEN [calls |-> <<"EncodeEntry", "out.Write", "buf.Free">>, err |-> <<e>>]
    ELSE IF ent.Level > ErrorLevel
    THEN [calls |-> <<"EncodeEntry", "out.Write", "buf.Free", "out.Sync">>,
          err |-> NoErr]
    ELSE [calls |-> <<"EncodeEntry", "out.Write", "buf.Free">>, err |-> NoErr]

\* faulty variant: the buffer is freed only after a successful write
ioCoreWriteLeaksOnError(ent, e, encFails, outFails, syncFails) ==
    IF encFails
    THEN [calls |-> <<"EncodeEntry">>, err |-> <<e>>]
    ELSE IF outFails
    THEN [calls |-> <<"EncodeEntry", "out.Write">>, err |-> <<e>>]
    ELSE IF ent.Level > ErrorLevel
    THEN [calls |-> <<"EncodeEntry", "out.Write", "buf.Free", "out.Sync">>,
          err |-> NoErr]
    ELSE [calls |-> <<"EncodeEntry", "out.Write", "buf.Free">>, err |-> NoErr]

\* func (c *ioCore) Write(ent Entry, fields []Field) error
ioCoreWrite(ent, e, encFails, outFails, syncFails) ==
    IF encFails
    THEN [calls |-> <<"EncodeEntry">>, err |-> <<e>>]
    ELSE IF outFails
    THEN [calls |-> <<"EncodeEntry", "out.Write", "buf.Free">>, err |-> <<e>>]
    ELSE IF ent.Level > ErrorLevel
    THEN [calls |-> <<"EncodeEntry", "out.Write", "buf.Free", "out.Sync">>,
          err |-> NoErr]
    ELSE [calls |-> <<"EncodeEntry", "out.Write", "buf.Free">>, err |-> NoErr]

\* how one ioCore.Write may go: the answers of its encoder and its sink
IoAnswers == {"ok", "encodeError", "writeError"}
ioCoreWriteErr(ent, e, a) ==
    ioCoreWrite(ent, e, a = "encodeError", a = "writeError", FALSE).err

(***************************************************************************)
(* func (a CheckWriteAction) OnWrite(ce, fields): how the hook ends.       *)
(* exit.With(1) ends the process unless the exit package is stubbed.       *)
(* A user-defined hook returns.                                            *)
(***************************************************************************)
OnWrite(a, stubbed) ==
    CASE a = WriteThenGoexit -> "goexit"
      [] a = WriteThenPanic -> "panic"
      [] a = WriteThenFatal -> IF stubbed THEN "returned" ELSE "exit"
      [] OTHER -> "returned"

(***************************************************************************)
(* func (ce *CheckedEntry) Write(fields ...Field)                          *)
(* c: the instance behind the handle; ans[j]: how the Write of cores[j]    *)
(* goes.  The result is the instance afterwards, the calls Write made, in  *)
(* order, how it ended and whether it reached putCheckedEntry.             *)
(***************************************************************************)
Ev(k, core, ent, fields, err, hook) ==
    [k |-> k, core |-> core, ent |-> ent, fields |-> fields, err |-> err,
     hook |-> hook]
EvCore(core, ent, fields, err) == Ev("core.Write", core, ent, fields, err, NilHook)
EvErrOut(what, ent, err) == Ev(what, Nil, ent, Nil, err, NilHook)
EvHook(hook, ent, fields) == Ev("hook.OnWrite", Nil, ent, fields, NoErr, hook)

\* faulty variant: the loop stops at the first core that returns an error
RECURSIVE WriteCoresStopsAtError(_, _, _, _, _)
WriteCoresStopsAtError(c, fields, ans, j, acc) ==
    IF j > Len(c.cores) \/ acc.err # NoErr THEN acc
    ELSE LET e == ioCoreWriteErr(c.Entry, c.cores[j], ans[j])
         IN  WriteCoresStopsAtError(c, fields, ans, j + 1,
                 [ev |-> Append(acc.ev, EvCore(c.cores[j], c.Entry, fields, e)),
                  err |-> multierrAppend(acc.err, e)])

RECURSIVE WriteCores(_, _, _, _, _)
\* for i := range ce.cores {
\*     err = multierr.Append(err, ce.cores[i].Write(ce.Entry, fields)) }
WriteCores(c, fields, ans, j, acc) ==
    IF j > Len(c.cores) THEN acc
    ELSE LET e == ioCoreWriteErr(c.Entry, c.cores[j], ans[j])
         IN  WriteCores(c, fields, ans, j + 1,
                 [ev |-> Append(acc.ev, EvCore(c.cores[j], c.Entry, fields, e)),
                  err |-> multierrAppend(acc.err, e)])

\* if ce.dirty { if ce.ErrorOutput != nil { Fprintf(...); Sync() }; return }
reportReuse(c) ==
    IF c.ErrorOutput
    THEN <<EvErrOut("Unsafe CheckedEntry re-use", c.Entry, NoErr),
           EvErrOut("ErrorOutput.Sync", c.Entry, NoErr)>>
    ELSE <<>>

\* if err != nil && ce.ErrorOutput != nil { Fprintf(...); Sync() }
reportError(c, err) ==
    IF err # NoErr /\ c.ErrorOutput
    THEN <<EvErrOut("write error", c.Entry, err),
           EvErrOut("ErrorOutput.Sync", c.Entry, NoErr)>>
    ELSE <<>>

\* faulty variant: the dirty flag is not set
markDirtyForgotten(c) == c

\* ce.dirty = true
markDirty(c) == [c EXCEPT !.dirty = TRUE]

\* hook := ce.after; if hook != nil { hook.OnWrite(ce, fields) }
runHook(c, fields, stubbed) ==
    IF c.after # NilHook
    THEN [ev |-> <<EvHook(c.after, c.Entry, fields)>>,
          result |-> OnWrite(c.after, stubbed)]
    ELSE [ev |-> <<>>, result |-> "returned"]

\* faulty variant: the hook runs before the cores are written
WriteOnHookFirst(c, fields, ans, stubbed) ==
    IF c.dirty
    THEN [ce |-> c, ev |-> reportReuse(c), result |-> "returned", put |-> FALSE]
    ELSE LET w == WriteCores(c, fields, ans, 1, [ev |-> <<>>, err |-> NoErr])
             hk == runHook(c, fields, stubbed)
         IN  [ce |-> markDirty(c),
              ev |-> hk.ev \o w.ev \o reportError(c, w.err),
              result |-> hk.result,
              put |-> hk.result = "returned"]

WriteOn(c, fields, ans, stubbed) ==
    IF c.dirty
    THEN [ce |-> c, ev |-> reportReuse(c), result |-> "returned", put |-> FALSE]
    ELSE LET w == WriteCores(c, fields, ans, 1, [ev |-> <<>>, err |-> NoErr])
             hk == runHook(c, fields, stubbed)
         IN  [ce |-> markDirty(c),
              ev |-> w.ev \o reportError(c, w.err) \o hk.ev,
              result |-> hk.result,
              put |-> hk.result = "returned"]

Write(t, fields, ans, stubbed) ==
    /\ ~halted
    /\ holds[t]
    /\ LET r == WriteOn(ce, fields, ans, stubbed)
       IN  /\ ce' = r.ce
           /\ pooled' = IF r.put THEN putCheckedEntry(pooled, FALSE) ELSE pooled
           /\ halted' = (r.result = "exit")
           /\ last' = [op |-> "Write", t |-> t, isNil |-> FALSE,
                       fields |-> fields, ans |-> ans, pre |-> ce,
                       again |-> wrote[t], cur |-> owner = t, was |-> given,
                       ev |-> r.ev, result |-> r.result, put |-> r.put]
    /\ wrote' = [wrote EXCEPT ![t] = TRUE]
    /\ given' = [given EXCEPT !.written = TRUE]
    /\ UNCHANGED <<atom, passed, calls, encs, built, logger, allocd, owner, holds, extra>>

\* if ce == nil { return }
WriteNil(t, fields) ==
    /\ ~halted
    /\ ~holds[t]
    /\ last' = [op |-> "Write", t |-> t, isNil |-> TRUE, fields |-> fields,
                ans |-> <<>>, pre |-> ce, again |-> FALSE, cur |-> FALSE,
                was |-> given, ev |-> <<>>, result |-> "returned", put |-> FALSE]
    /\ UNCHANGED <<atom, passed, calls, encs, built, logger, ce, allocd, pooled, owner, holds, wrote, halted, given, extra>>

\* the log statement is over: the goroutine lets go of the handle it wrote
Drop(t) ==
    /\ ~halted
    /\ wrote[t]
    /\ holds' = [holds EXCEPT ![t] = FALSE]
    /\ wrote' = [wrote EXCEPT ![t] = FALSE]
    /\ last' = NoCall
    /\ UNCHANGED <<atom, passed, calls, encs, built, logger, ce, allocd, pooled, owner, halted, given, extra>>

\* the answers of the sinks of the cores a Write will call, and whether exit
\* is stubbed when the hook is about to call it
AnswersFor(c) ==
    IF c.dirty THEN {<<>>} ELSE [1..Len(c.cores) -> {"ok", "writeError"}]
StubsFor(c) == IF ~c.dirty /\ c.after = WriteThenFatal THEN BOOLEAN ELSE {FALSE}

\* the callers use CheckedEntry directly, no Logger is constructed
Init == InitCE /\ logger = Nil /\ InitRest

Next ==
    \/ \E t \in Threads, core \in Cores : AddCore(t, EntryOf(t), core)
    \/ \E t \in Threads, hook \in CheckWriteActions \cup {NilHook} :
          After(t, EntryOf(t), hook)
    \/ \E t \in Threads : SetErrorOutput(t)
    \/ \E t \in Threads, ans \in AnswersFor(ce), stubbed \in StubsFor(ce) :
          Write(t, FieldsOf(t), ans, stubbed)
    \/ \E t \in Threads : WriteNil(t, FieldsOf(t))
    \/ \E t \in Threads : Drop(t)

Spec == Init /\ [][Next]_vars

(***************************************************************************)
(* Properties of the CheckedEntry write protocol.                          *)
(***************************************************************************)
IsCore(e) == e.k = "core.Write"
IsHook(e) == e.k = "hook.OnWrite"
IsReuseLine(e) == e.k = "Unsafe CheckedEntry re-use"
IsErrorLine(e) == e.k = "write error"
CoreEvents(ev) == SelectSeq(ev, IsCore)
HookEvents(ev) == SelectSeq(ev, IsHook)

\* the last step was a Write on a non-nil handle
IsWrite == last.op = "Write" /\ ~last.isNil

\* the handle was written before by its thread (again), and the instance has
\* not been handed out by the pool since that thread acquired it (cur)
SecondWrite == IsWrite /\ last.again /\ last.cur

\* the handle was written before by its thread, and the pool has handed the
\* instance to another log statement since that thread acquired it
RetainedWriteAfterReuse == IsWrite /\ last.again /\ ~last.cur

\* the Write called no core, ran no hook, put nothing in the pool and left
\* the instance as it was
Inert ==
    /\ CoreEvents(last.ev) = <<>>
    /\ HookEvents(last.ev) = <<>>
    /\ ~last.put
    /\ last.result = "returned"
    /\ ce = last.pre

Consumes ==
    LET cw == CoreEvents(last.ev)
    IN  /\ Len(cw) = Len(last.was.cores)
        /\ \A j \in 1..Len(cw) :
              /\ cw[j].core = last.was.cores[j]
              /\ cw[j].ent = last.was.Entry
              /\ cw[j].fields = last.fields
        /\ Len(HookEvents(last.ev)) = (IF last.was.hook = NilHook THEN 0 ELSE 1)
        /\ \A j \in 1..Len(HookEvents(last.ev)) :
              HookEvents(last.ev)[j].hook = last.was.hook
        /\ ce.dirty

C3_FirstWriteWritesEachCoreOnceInOrder ==
    (IsWrite /\ ~last.was.written) =>
        LET cw == CoreEvents(last.ev)
        IN  /\ Len(cw) = Len(last.was.cores)
            /\ \A j \in 1..Len(cw) :
                  /\ cw[j].core = last.was.cores[j]
                  /\ cw[j].ent = last.was.Entry
                  /\ cw[j].fields = last.fields

C3_Witness ==
    /\ IsWrite /\ ~last.again /\ last.cur /\ ~last.was.written
    /\ last.was.cores = <<2, 1>>
    /\ Len(CoreEvents(last.ev)) = 2

\* C4: the post-write hook is called at most once, as the last call of Write,
\* after a Write call on every accumulated core, whatever those returned; and
\* Write ends in goexit, panic or exit only through the hook.
C4_HookAfterAllCoreWrites ==
    IsWrite =>
        /\ \A j \in 1..Len(last.ev) :
              IsHook(last.ev[j]) =>
                  /\ j = Len(last.ev)
                  /\ Len(CoreEvents(SubSeq(last.ev, 1, j - 1)))
                         = Len(last.pre.cores)
        /\ last.result # "returned" =>
              /\ Len(HookEvents(last.ev)) = 1
              /\ last.pre.after \in {WriteThenGoexit, WriteThenPanic, WriteThenFatal}

C4_Witness ==
    /\ IsWrite
    /\ Len(last.pre.cores) = 2
    /\ \E j \in 1..Len(last.ev) : IsCore(last.ev[j]) /\ last.ev[j].err # NoErr
    /\ IsHook(last.ev[Len(last.ev)])
    /\ last.result = "panic"

\* the Write was carried out and one or more cores returned an error
WriteWithErrors ==
    /\ IsWrite
    /\ ~last.pre.dirty
    /\ \E j \in 1..Len(last.ans) : last.ans[j] # "ok"

\* every core was called, and the errors were reported when ErrorOutput is set
AllCalledAndReported ==
    /\ Len(CoreEvents(last.ev)) = Len(last.pre.cores)
    /\ LET lines == SelectSeq(last.ev, IsErrorLine)
       IN  IF last.pre.ErrorOutput
           THEN /\ Len(lines) = 1
                /\ \A j \in 1..Len(last.ans) :
                      last.ans[j] # "ok" =>
                          \E n \in 1..Len(lines[1].err) :
                              lines[1].err[n] = last.pre.cores[j]
           ELSE lines = <<>>
    /\ Len(HookEvents(last.ev)) = (IF last.pre.after = NilHook THEN 0 ELSE 1)

NopCore == [kind |-> "nop", id |-> Nil, enab |-> InvalidLevel, kids |-> <<>>]
IoCore(k, enab) == [kind |-> "io", id |-> k, enab |-> enab, kids |-> <<>>]
MultiCore(cores) == [kind |-> "multi", id |-> Nil, enab |-> InvalidLevel, kids |-> cores]
\* &levelFilterCore{core, level}, level a static Level
LevelFilterCore(core, level) ==
    [kind |-> "levelFilter", id |-> Nil, enab |-> level, kids |-> <<core>>]
\* func RegisterHooks(core Core, hooks ...func(Entry) error) Core; k names the
\* hooked core, its hooks are h1..hNHooks
RegisterHooks(core, k) ==
    [kind |-> "hooked", id |-> k, enab |-> InvalidLevel, kids |-> <<core>>]

\* &lazyWithCore{Core: core, fields: fields}, as a core of a composition
LazyWith(core) ==
    [kind |-> "lazy", id |-> Nil, enab |-> InvalidLevel, kids |-> <<core>>]

\* core.With(fields) on a core of a composition: the no-op core returns
\* itself, an ioCore its clone on the same LevelEnabler, a tee the tee of what
\* its children return, a levelFilterCore and a hooked core a new wrapper
\* around what the wrapped core returns; a lazyWithCore returns what the
\* core its Once made returns, which is no lazyWithCore
RECURSIVE treeWith(_)
treeWith(c) ==
    CASE c.kind = "nop" -> c
      [] c.kind = "io" -> IoCore(c.id, c.enab)
      [] c.kind = "multi" -> MultiCore([j \in 1..Len(c.kids) |-> treeWith(c.kids[j])])
      [] c.kind = "levelFilter" -> LevelFilterCore(treeWith(c.kids[1]), c.enab)
      [] c.kind = "hooked" -> RegisterHooks(treeWith(c.kids[1]), c.id)
      [] c.kind = "lazy" -> treeWith(treeWith(c.kids[1]))

\* faulty variant: the cores are wrapped whatever their number
NewTeeAlwaysWraps(cores) == MultiCore(cores)

\* func NewTee(cores ...Core) Core
NewTee(cores) ==
    CASE Len(cores) = 0 -> NopCore
      [] Len(cores) = 1 -> cores[1]
      [] OTHER -> MultiCore(cores)

\* faulty variant: a tee is enabled only when all its children are
multiCoreEnabledAll(kidsOn) == \A j \in DOMAIN kidsOn : kidsOn[j]

\* func (mc multiCore) Enabled(lvl Level) bool; kidsOn[j]: mc[j].Enabled(lvl)
multiCoreEnabled(kidsOn) == \E j \in DOMAIN kidsOn : kidsOn[j]

\* Enabled of nopCore, of ioCore (its embedded LevelEnabler), of multiCore,
\* of levelFilterCore (its level), of hooked and of lazyWithCore (their
\* embedded Core)
RECURSIVE CoreEnabled(_, _)
CoreEnabled(c, lvl) ==
    CASE c.kind = "nop" -> FALSE
      [] c.kind = "io" -> LevelEnabled(c.enab, lvl)
      [] c.kind = "multi" ->
            multiCoreEnabled([j \in 1..Len(c.kids) |->
                                 CoreEnabled(c.kids[j], lvl)])
      [] c.kind = "levelFilter" -> LevelEnabled(c.enab, lvl)
      [] c.kind = "hooked" -> CoreEnabled(c.kids[1], lvl)
      [] c.kind = "lazy" -> CoreEnabled(c.kids[1], lvl)

\* a handle: nil, or the instance it points to
NilHandle(c) == [isNil |-> TRUE, c |-> c]
AddCoreH(hd, ent, core) ==
    [isNil |-> FALSE, c |-> AddCoreOn(hd.c, hd.isNil, ent, core)]
AfterH(hd, ent, hook) ==
    [isNil |-> FALSE, c |-> AfterOn(hd.c, hd.isNil, ent, hook)]

\* faulty variant: the filter delegates whatever its level says
levelFilterCheckAlwaysDelegates(c, ent, hd, inner) == inner

\* func (c *levelFilterCore) Check(ent, ce); inner: c.core.Check(ent, ce)
levelFilterCheck(c, ent, hd, inner) ==
    IF ~LevelEnabled(c.enab, ent.Level) THEN hd ELSE inner

\* func (h *hooked) Check(ent, ce); downstream: h.Core.Check(ent, ce)
hookedCheck(c, ent, hd, downstream) ==
    IF ~downstream.isNil THEN AddCoreH(downstream, ent, c.id) ELSE hd

\* Check of nopCore, ioCore, multiCore, levelFilterCore, hooked and
\* lazyWithCore:
\* Check(ent, ce) *CheckedEntry
RECURSIVE CoreCheck(_, _, _)
RECURSIVE CheckKids(_, _, _, _)
CoreCheck(c, ent, hd) ==
    CASE c.kind = "nop" -> hd
      [] c.kind = "io" ->
            IF CoreEnabled(c, ent.Level) THEN AddCoreH(hd, ent, c.id) ELSE hd
      [] c.kind = "multi" -> CheckKids(c.kids, 1, ent, hd)
      [] c.kind = "levelFilter" ->
            levelFilterCheck(c, ent, hd, CoreCheck(c.kids[1], ent, hd))
      [] c.kind = "hooked" ->
            hookedCheck(c, ent, hd, CoreCheck(c.kids[1], ent, hd))
      [] c.kind = "lazy" ->
            \* d.initOnce(); return d.Core.Check(e, ce)
            CoreCheck(treeWith(c.kids[1]), ent, hd)
\* for i := range mc { ce = mc[i].Check(ent, ce) }
CheckKids(kids, j, ent, hd) ==
    IF j > Len(kids) THEN hd
    ELSE CheckKids(kids, j + 1, ent, CoreCheck(kids[j], ent, hd))

(***************************************************************************)
(* Logger.check and terminalHookOverride.                                  *)
(***************************************************************************)
\* faulty variant: only a nil override falls back to the default hook
terminalHookOverrideNilOnly(defaultHook, override) ==
    IF override = NilHook THEN defaultHook ELSE override

\* func terminalHookOverride(defaultHook, override CheckWriteHook)
terminalHookOverride(defaultHook, override) ==
    IF override = NilHook \/ override = WriteThenNoop
    THEN defaultHook ELSE override

\* switch ent.Level { case PanicLevel: ... case FatalLevel: ... case DPanicLevel: ... }
terminalBehavior(log, ent, hd) ==
    CASE ent.Level = PanicLevel ->
            AfterH(hd, ent, terminalHookOverride(WriteThenPanic, log.onPanic))
      [] ent.Level = FatalLevel ->
            AfterH(hd, ent, terminalHookOverride(WriteThenFatal, log.onFatal))
      [] ent.Level = DPanicLevel /\ log.development ->
            AfterH(hd, ent, terminalHookOverride(WriteThenPanic, log.onPanic))
      [] OTHER -> hd

\* faulty variant: a disabled level returns nil whatever the level
checkSkipsEveryDisabledLevel(log, lvl, msg, c) ==
    IF ~CoreEnabled(log.core, lvl)
    THEN NilHandle(c)
    ELSE LET ent == MkEntry(lvl, msg)
             checked == CoreCheck(log.core, ent, NilHandle(c))
             willWrite == ~checked.isNil
             res == terminalBehavior(log, ent, checked)
         IN  IF ~willWrite THEN res
             ELSE [res EXCEPT !.c.ErrorOutput = log.errorOutput]

\* func (log *Logger) check(lvl, msg) *CheckedEntry, up to the annotation of
\* the entry with the caller and the stack; c is the instance the pool hands
\* out if the check acquires one
check(log, lvl, msg, c) ==
    IF lvl < DPanicLevel /\ ~CoreEnabled(log.core, lvl)
    THEN NilHandle(c)
    ELSE LET ent == MkEntry(lvl, msg)
             checked == CoreCheck(log.core, ent, NilHandle(c))
             willWrite == ~checked.isNil
             res == terminalBehavior(log, ent, checked)
         IN  IF ~willWrite THEN res
             ELSE [res EXCEPT !.c.ErrorOutput = log.errorOutput]

\* Debug, Info, ..., Fatal: ce := log.check(lvl, msg); the handle is written
\* by the Write step when it is not nil
LoggerCheck(t, lvl) ==
    /\ ~halted
    /\ \A u \in Threads : ~holds[u]
    /\ LET r == check(logger, lvl, t, ce)
       IN  /\ IF r.isNil
              THEN UNCHANGED <<ce, allocd, pooled, owner, holds, given, extra>>
              ELSE /\ PoolHasIt
                   /\ Taken(t)
                   /\ ce' = r.c
                   /\ given' = [Entry |-> MkEntry(lvl, t), cores |-> r.c.cores,
                                hook |-> r.c.after, written |-> FALSE,
                                replaced |-> FALSE]
           /\ last' = [op |-> "check", t |-> t, lvl |-> lvl, isNil |-> r.isNil]
    /\ UNCHANGED <<atom, passed, calls, encs, built, logger, wrote, halted, extra>>

\* the leaf cores of the loggers: core 1 logs from Info, core 2 from Panic,
\* any further core from Error
LeafLevel(k) ==
    CASE k = 1 -> InfoLevel
      [] k = 2 -> PanicLevel
      [] OTHER -> ErrorLevel
Leaf(k) == IoCore(k, LeafLevel(k))

\* the cores of the loggers: NewTee of the first n leaf cores
RECURSIVE FirstLeaves(_)
FirstLeaves(n) == IF n = 0 THEN <<>> ELSE Append(FirstLeaves(n - 1), Leaf(n))
LoggerCores == {NewTee(FirstLeaves(n)) : n \in 0..NCores}

\* the loggers: New(core, options...) with the development flag and the
\* onPanic and onFatal hooks the options set; errorOutput is always set
Loggers ==
    [core : LoggerCores,
     development : BOOLEAN,
     onPanic : Hooks \cup {NilHook},
     onFatal : Hooks \cup {NilHook},
     errorOutput : {TRUE}]

\* the goroutine that logs
LogThreads == {t \in Threads : \A u \in Threads : t <= u}

NextLogger ==
    \/ \E t \in LogThreads, lvl \in Levels : LoggerCheck(t, lvl)
    \/ \E t \in LogThreads, ans \in AnswersFor(ce), stubbed \in StubsFor(ce) :
          Write(t, FieldsOf(t), ans, stubbed)
    \/ \E t \in LogThreads : Drop(t)

\* func New(core, options...): the Logger is constructed once
InitLogger == InitCE /\ logger \in Loggers /\ InitRest

SpecLogger == InitLogger /\ [][NextLogger]_vars

\* the last step was a Logger.check at one of the levels
Checked(lvls) == last.op = "check" /\ last.lvl \in lvls

\* C5: Logger.check attaches the terminal hook by the level alone.  For Panic
\* and Fatal the result is not nil and carries a hook that is neither nil nor
\* the no-op action, also when the core disables the level; for DPanic it is
\* so in development mode and there is no hook otherwise; below DPanic there
\* is no hook.
C5_TerminalHookByLevel ==
    /\ Checked({PanicLevel, FatalLevel}) =>
          /\ ~last.isNil
          /\ holds[last.t]
          /\ ce.Entry = MkEntry(last.lvl, last.t)
          /\ ce.after \notin {NilHook, WriteThenNoop}
    /\ Checked({DPanicLevel}) =>
          IF logger.development
          THEN ~last.isNil /\ ce.after \notin {NilHook, WriteThenNoop}
          ELSE /\ last.isNil <=> ~CoreEnabled(logger.core, DPanicLevel)
               /\ ~last.isNil => ce.after = NilHook
    /\ Checked(DebugLevel..ErrorLevel) =>
          /\ last.isNil <=> ~CoreEnabled(logger.core, last.lvl)
          /\ ~last.isNil => ce.after = NilHook

C5_Witness ==
    /\ Checked({FatalLevel})
    /\ ~CoreEnabled(logger.core, FatalLevel)
    /\ ~last.isNil
    /\ ce.cores = <<>>
    /\ ce.after = WriteThenFatal

\* C6: for a Panic or Fatal entry the hook attached is the default one
\* (WriteThenPanic, WriteThenFatal) when the override is nil or WriteThenNoop,
\* and the override in every other case.
C6_NoopOverrideKeepsDefault ==
    Checked({PanicLevel, FatalLevel}) =>
        LET override == IF last.lvl = PanicLevel THEN logger.onPanic
                        ELSE logger.onFatal
            default == IF last.lvl = PanicLevel THEN WriteThenPanic
                       ELSE WriteThenFatal
        IN  ce.after = (IF override \in {NilHook, WriteThenNoop} THEN default
                        ELSE override)

C6_Witness ==
    /\ Checked({FatalLevel})
    /\ logger.onFatal = WriteThenNoop
    /\ logger.onPanic = UserHook
    /\ ce.after = WriteThenFatal

(***************************************************************************)
(* ioCore.Write, multiCore.Write and multiCore.Sync called on their own.   *)
(***************************************************************************)
\* func (c *ioCore) Sync() error { return c.out.Sync() }
ioCoreSync(e, syncFails) == IF syncFails THEN <<e>> ELSE NoErr

\* faulty variant: the loop stops at the first child that returns an error
RECURSIVE multiCoreWriteStopsAtError(_, _, _, _, _, _)
multiCoreWriteStopsAtError(mc, ent, fields, ans, j, acc) ==
    IF j > Len(mc) \/ acc.err # NoErr THEN acc
    ELSE LET e == ioCoreWriteErr(ent, mc[j].id, ans[j])
         IN  multiCoreWriteStopsAtError(mc, ent, fields, ans, j + 1,
                 [ev |-> Append(acc.ev, EvCore(mc[j].id, ent, fields, e)),
                  err |-> multierrAppend(acc.err, e)])

\* func (mc multiCore) Write(ent Entry, fields []Field) error
RECURSIVE multiCoreWrite(_, _, _, _, _, _)
multiCoreWrite(mc, ent, fields, ans, j, acc) ==
    IF j > Len(mc) THEN acc
    ELSE LET e == ioCoreWriteErr(ent, mc[j].id, ans[j])
         IN  multiCoreWrite(mc, ent, fields, ans, j + 1,
                 [ev |-> Append(acc.ev, EvCore(mc[j].id, ent, fields, e)),
                  err |-> multierrAppend(acc.err, e)])

\* func (mc multiCore) Sync() error
RECURSIVE multiCoreSync(_, _, _, _)
multiCoreSync(mc, fails, j, acc) ==
    IF j > Len(mc) THEN acc
    ELSE LET e == ioCoreSync(mc[j].id, fails[j])
         IN  multiCoreSync(mc, fails, j + 1,
                 [ev |-> Append(acc.ev, Ev("core.Sync", mc[j].id, ZeroEntry,
                                           Nil, e, NilHook)),
                  err |-> multierrAppend(acc.err, e)])

NoCalls == [ev |-> <<>>, err |-> NoErr]

\* c.Write(ent, fields) on an ioCore c
IoCoreWrite(k, lvl, encFails, outFails, syncFails) ==
    /\ LET r == ioCoreWrite(MkEntry(lvl, k), k, encFails, outFails, syncFails)
       IN  last' = [op |-> "ioCore.Write", lvl |-> lvl, encFails |-> encFails,
                    outFails |-> outFails, syncFails |-> syncFails,
                    calls |-> r.calls, err |-> r.err]
    /\ UNCHANGED <<ce, allocd, pooled, owner, holds, wrote, halted, given, logger,
                 atom, passed, calls, encs, built, extra>>

\* mc.Write(ent, fields) on a multiCore mc
MultiCoreWrite(mc, lvl, fields, ans) ==
    /\ LET r == multiCoreWrite(mc, MkEntry(lvl, fields), fields, ans, 1, NoCalls)
       IN  last' = [op |-> "multiCore.Write", mc |-> mc,
                    ent |-> MkEntry(lvl, fields), fields |-> fields,
                    ans |-> ans, ev |-> r.ev, err |-> r.err]
    /\ UNCHANGED <<ce, allocd, pooled, owner, holds, wrote, halted, given, logger,
                 atom, passed, calls, encs, built, extra>>

\* mc.Sync() on a multiCore mc
MultiCoreSync(mc, fails) ==
    /\ LET r == multiCoreSync(mc, fails, 1, NoCalls)
       IN  last' = [op |-> "multiCore.Sync", mc |-> mc, fails |-> fails,
                    ev |-> r.ev, err |-> r.err]
    /\ UNCHANGED <<ce, allocd, pooled, owner, holds, wrote, halted, given, logger,
                 atom, passed, calls, encs, built, extra>>

\* ce := NewTee(mc...).Check(ent, nil); if ce != nil { ce.Write(fields) }:
\* sinks[j] are the calls the Write of cores[j] makes on its encoder and sink,
\* syncFails is the answer of the sinks to Sync
CheckedWrite(mc, lvl, t, ans, syncFails) ==
    /\ ~halted
    /\ PoolHasIt
    /\ LET ent == MkEntry(lvl, t)
           hd == CoreCheck(NewTee(mc), ent, NilHandle(ce))
       IN  /\ ~hd.isNil
           /\ DOMAIN ans = DOMAIN hd.c.cores
           /\ LET r == WriteOn(hd.c, FieldsOf(t), ans, FALSE)
              IN  /\ ce' = r.ce
                  /\ allocd' = TRUE
                  /\ owner' = t
                  /\ pooled' = LET got == IF pooled > 0 THEN pooled - 1 ELSE pooled
                                IN  IF r.put THEN putCheckedEntry(got, FALSE)
                                    ELSE got
                  /\ last' = [op |-> "CheckedEntry.Write", ent |-> ent,
                              cores |-> hd.c.cores, ans |-> ans,
                              syncFails |-> syncFails, ev |-> r.ev,
                              sinks |-> [j \in DOMAIN ans |->
                                           ioCoreWrite(ent, hd.c.cores[j],
                                               ans[j] = "encodeError",
                                               ans[j] = "writeError",
                                               syncFails).calls]]
    /\ UNCHANGED <<holds, wrote, halted, given, logger, atom, passed, calls, encs,
                   built, extra>>

\* the multiCores: the first n leaf cores, in order
MultiCores == {FirstLeaves(n) : n \in 0..NCores}

NextCore ==
    \/ \E k \in Cores, lvl \in Levels, encFails, outFails, syncFails \in BOOLEAN :
          IoCoreWrite(k, lvl, encFails, outFails, syncFails)
    \/ \E mc \in MultiCores, lvl \in Levels, t \in Threads :
          \E ans \in [1..Len(mc) -> IoAnswers] :
              MultiCoreWrite(mc, lvl, FieldsOf(t), ans)
    \/ \E mc \in MultiCores : \E fails \in [1..Len(mc) -> BOOLEAN] :
          MultiCoreSync(mc, fails)

SpecCore == Init /\ [][NextCore]_vars

\* how many of the cores of mc a Check of a lvl entry adds
Agreeing(mc, lvl) == Cardinality({j \in 1..Len(mc) : CoreEnabled(mc[j], lvl)})

\* log statements on a tee of leaf cores: Check, then Write
NextChecked ==
    \E mc \in MultiCores, lvl \in Levels, t \in Threads :
       \E ans \in [1..Agreeing(mc, lvl) -> IoAnswers], syncFails \in BOOLEAN :
          CheckedWrite(mc, lvl, t, ans, syncFails)

SpecChecked == Init /\ [][NextChecked]_vars

\* every child called exactly once, in the order of the list
EachChildOnce ==
    /\ Len(last.ev) = Len(last.mc)
    /\ \A j \in 1..Len(last.mc) : last.ev[j].core = last.mc[j].id
\* the error returned holds the error of every failing child and is nil
\* exactly when no child failed
Aggregates(failed) ==
    /\ \A j \in 1..Len(last.mc) :
          failed[j] <=> last.mc[j].id \in Range(last.err)
    /\ last.err = NoErr <=> \A j \in 1..Len(last.mc) : ~failed[j]

\* C7: multiCore.Write calls Write(ent, fields) on every child exactly once,
\* whatever the earlier children returned, and returns the aggregate of the
\* errors of the failing children, nil iff every child succeeded; multiCore.Sync
\* does the same with Sync.
C7_MultiCoreCallsAllAndAggregates ==
    /\ last.op = "multiCore.Write" =>
          /\ EachChildOnce
          /\ \A j \in 1..Len(last.ev) :
                /\ last.ev[j].k = "core.Write"
                /\ last.ev[j].ent = last.ent
                /\ last.ev[j].fields = last.fields
          /\ Aggregates([j \in 1..Len(last.mc) |-> last.ans[j] # "ok"])
    /\ last.op = "multiCore.Sync" =>
          /\ EachChildOnce
          /\ \A j \in 1..Len(last.ev) : last.ev[j].k = "core.Sync"
          /\ Aggregates(last.fails)

C7_Witness ==
    /\ last.op = "multiCore.Write"
    /\ Len(last.mc) >= 2
    /\ last.ans[1] = "writeError"
    /\ last.ans[Len(last.mc)] = "ok"
    /\ Len(last.ev) = Len(last.mc)
    /\ Len(last.err) = 1

SyncCalled == \E j \in 1..Len(last.calls) : last.calls[j] = "out.Sync"

\* C9 as stated: ioCore.Write calls Sync on the WriteSyncer, after
\* WriteSyncer.Write and before it returns, if and only if entry.Level > Error.
C9_SyncIffAboveError ==
    last.op = "ioCore.Write" =>
        /\ SyncCalled <=> last.lvl > ErrorLevel
        /\ SyncCalled =>
              /\ last.calls[Len(last.calls)] = "out.Sync"
              /\ \E j \in 1..(Len(last.calls) - 1) : last.calls[j] = "out.Write"

\* C9 amended: ioCore.Write calls Sync on the WriteSyncer if and only if
\* entry.Level > Error and both EncodeEntry and WriteSyncer.Write succeeded;
\* the Sync call then comes after WriteSyncer.Write, is the last call Write
\* makes, and its error is not returned.
C9_SyncIffAboveErrorAndWritten ==
    last.op = "ioCore.Write" =>
        /\ SyncCalled <=>
              last.lvl > ErrorLevel /\ ~last.encFails /\ ~last.outFails
        /\ SyncCalled =>
              /\ last.calls[Len(last.calls)] = "out.Sync"
              /\ \E j \in 1..(Len(last.calls) - 1) : last.calls[j] = "out.Write"
              /\ last.err = NoErr

C9_Witness ==
    /\ last.op = "ioCore.Write"
    /\ last.lvl = DPanicLevel
    /\ ~last.encFails /\ ~last.outFails /\ last.syncFails
    /\ last.calls = <<"EncodeEntry", "out.Write", "buf.Free", "out.Sync">>
    /\ last.err = NoErr

(***************************************************************************)
(* NewIncreaseLevelCore(core, level).  A LevelEnabler is the set of the    *)
(* levels it enables: coreEn for the wrapped core, levelEn for level.      *)
(***************************************************************************)
\* faulty variant: the loop stops before _minLevel
RECURSIVE scanLevelsAboveMin(_, _, _)
scanLevelsAboveMin(coreEn, levelEn, l) ==
    IF ~(l > minLevel) THEN NoErr
    ELSE IF l \notin coreEn /\ l \in levelEn THEN <<l>>
    ELSE scanLevelsAboveMin(coreEn, levelEn, l - 1)

\* for l := _maxLevel; l >= _minLevel; l-- { if !core.Enabled(l) &&
\* level.Enabled(l) { return nil, fmt.Errorf(...) } }: the error names l
RECURSIVE scanLevels(_, _, _)
scanLevels(coreEn, levelEn, l) ==
    IF ~(l >= minLevel) THEN NoErr
    ELSE IF l \notin coreEn /\ l \in levelEn THEN <<l>>
    ELSE scanLevels(coreEn, levelEn, l - 1)

\* faulty variant: the levels are not compared, the core is always returned
NewIncreaseLevelCoreUnchecked(coreEn, levelEn) ==
    [isNil |-> FALSE, core |-> coreEn, level |-> levelEn, err |-> NoErr]

\* func NewIncreaseLevelCore(core Core, level LevelEnabler) (Core, error)
NewIncreaseLevelCore(coreEn, levelEn) ==
    LET err == scanLevels(coreEn, levelEn, maxLevel)
    IN  [isNil |-> err # NoErr, core |-> coreEn, level |-> levelEn, err |-> err]

\* the constructor is called once, on any core and any enabler
IncreaseLevel(coreEn, levelEn) ==
    /\ last = NoCall
    /\ LET r == NewIncreaseLevelCore(coreEn, levelEn)
       IN  last' = [op |-> "NewIncreaseLevelCore", coreEn |-> coreEn,
                    levelEn |-> levelEn, isNil |-> r.isNil, err |-> r.err]
    /\ UNCHANGED <<ce, allocd, pooled, owner, holds, wrote, halted, given, logger,
                 atom, passed, calls, encs, built, extra>>

NextFilter ==
    \E coreEn \in SUBSET Levels, levelEn \in SUBSET Levels :
        IncreaseLevel(coreEn, levelEn)

SpecFilter == Init /\ [][NextFilter]_vars

\* C10: NewIncreaseLevelCore(core, level) returns an error iff some level l in
\* Debug..Fatal has core.Enabled(l) false and level.Enabled(l) true, and it
\* returns a non-nil core exactly when it returns no error.
C10_ErrorIffLevelWidens ==
    last.op = "NewIncreaseLevelCore" =>
        /\ last.err # NoErr <=>
              \E l \in Levels : l \notin last.coreEn /\ l \in last.levelEn
        /\ last.isNil <=> last.err # NoErr

C10_Witness ==
    /\ last.op = "NewIncreaseLevelCore"
    /\ last.levelEn \ last.coreEn = {DebugLevel}
    /\ last.err # NoErr
    /\ last.isNil

(***************************************************************************)
(* AtomicLevel: a pointer to an atomic.Int32.  Copies of an AtomicLevel    *)
(* value share the cell; a names the cell.  SetLevel is one atomic store,  *)
(* Level one atomic load, Enabled one Level() and a comparison.            *)
(***************************************************************************)
\* int8(x): the low eight bits of x as a signed number
Int8(x) == ((x + 128) % 256) - 128
\* int32(l) of a Level l: widening an int8 keeps its value
Int32(l) == l

\* faulty variant: the stored word is read as an unsigned byte
AtomicLevelLevelUnsigned(cells, a) == cells[a] % 256

\* func (lvl AtomicLevel) Level(): zapcore.Level(int8(lvl.l.Load()))
AtomicLevelLevel(cells, a) == Int8(cells[a])

\* func (lvl AtomicLevel) Enabled(l): lvl.Level().Enabled(l)
AtomicLevelEnabled(cells, a, l) == LevelEnabled(AtomicLevelLevel(cells, a), l)

\* lvl.l.Store(int32(l))
AtomicLevelStore(cells, a, l) == [cells EXCEPT ![a] = Int32(l)]

\* a LevelEnabler: a static Level, or an AtomicLevel
StaticEnab(l) == [atomic |-> FALSE, a |-> "", v |-> l]
AtomicEnab(a) == [atomic |-> TRUE, a |-> a, v |-> InfoLevel]
EnablerEnabled(en, lvl, cells) ==
    IF en.atomic THEN AtomicLevelEnabled(cells, en.a, lvl)
    ELSE LevelEnabled(en.v, lvl)
EnabledLevels(en, cells) == {l \in Levels : EnablerEnabled(en, l, cells)}
\* the threshold the enabler has now
Threshold(en, cells) ==
    IF en.atomic THEN AtomicLevelLevel(cells, en.a) ELSE en.v

\* the levels the callers pass to SetLevel
SetLevels == {DebugLevel, ErrorLevel}

\* a thread calls lvl.SetLevel(x)
SetLevelCall(t, a, x) ==
    /\ calls[t] = NoCallIn
    /\ calls' = [calls EXCEPT ![t] = [op |-> "SetLevel", a |-> a, x |-> x]]
    /\ passed' = [passed EXCEPT ![a] = @ \cup {x}]
    /\ last' = NoCall
    /\ UNCHANGED <<ce, allocd, pooled, owner, holds, wrote, halted, given, logger,
                   atom, encs, built, extra>>

\* the store of the SetLevel call, which then returns
SetLevelStore(t) ==
    /\ calls[t] # NoCallIn
    /\ atom' = AtomicLevelStore(atom, calls[t].a, calls[t].x)
    /\ calls' = [calls EXCEPT ![t] = NoCallIn]
    /\ last' = [op |-> "SetLevel", t |-> t, a |-> calls[t].a, x |-> calls[t].x]
    /\ UNCHANGED <<ce, allocd, pooled, owner, holds, wrote, halted, given, logger,
                   passed, encs, built, extra>>

(***************************************************************************)
(* NewIncreaseLevelCore on a core and a level that are static Levels or    *)
(* AtomicLevels, and SetLevel calls after the construction.                *)
(***************************************************************************)
\* the ioCore built by NewCore(enc, ws, enab), as it decides now
IoCoreNow(k, enab, cells) == IoCore(k, Threshold(enab, cells))

\* the levelFilterCore over the ioCore of enabler coreEnab, as it decides now
FilterNow(f, cells) ==
    LevelFilterCore(IoCoreNow(f.id, f.core, cells), Threshold(f.level, cells))

\* the core the filter wraps
FirstCore == CHOOSE k \in Cores : \A j \in Cores : k <= j

\* NewIncreaseLevelCore(NewCore(enc, ws, coreEnab), levelEnab), called once
BuildFilter(k, coreEnab, levelEnab) ==
    /\ built = <<>>
    /\ \A t \in Threads : calls[t] = NoCallIn
    /\ LET r == NewIncreaseLevelCore(EnabledLevels(coreEnab, atom),
                                     EnabledLevels(levelEnab, atom))
       IN  /\ built' = IF r.isNil THEN built
                       ELSE <<[id |-> k, core |-> coreEnab, level |-> levelEnab,
                               atomAt |-> atom]>>
           /\ last' = [op |-> "NewIncreaseLevelCore", coreEn |-> r.core,
                       levelEn |-> r.level, isNil |-> r.isNil, err |-> r.err]
    /\ UNCHANGED <<ce, allocd, pooled, owner, holds, wrote, halted, given, logger,
                   atom, passed, calls, encs, extra>>

\* the enablers a core or a filter is built on
StaticLevels == {InfoLevel, ErrorLevel}
Enablers ==
    {StaticEnab(l) : l \in StaticLevels} \cup
    {AtomicEnab(a) : a \in AtomicLevels}

NextIncrease ==
    \/ \E coreEnab \in Enablers, levelEnab \in Enablers :
          BuildFilter(FirstCore, coreEnab, levelEnab)
    \/ \E t \in LogThreads, a \in AtomicLevels, x \in SetLevels :
          SetLevelCall(t, a, x)
    \/ \E t \in LogThreads : SetLevelStore(t)

SpecIncrease == Init /\ [][NextIncrease]_vars

\* the filters constructed
Filters == {built[i] : i \in 1..Len(built)}
\* f.Enabled(l) and core.Enabled(l) now, for the filter f and the core it wraps
FilterEnabled(f, l) == EnablerEnabled(f.level, l, atom)
WrappedEnabled(f, l) == EnablerEnabled(f.core, l, atom)
\* the AtomicLevels f is built on hold what they held at its construction
AsConstructed(f) ==
    /\ f.core.atomic => atom[f.core.a] = f.atomAt[f.core.a]
    /\ f.level.atomic => atom[f.level.a] = f.atomAt[f.level.a]

\* C11 as claimed: for a core f returned by a successful NewIncreaseLevelCore
\* (core, level), f.Enabled(l) implies core.Enabled(l) for every level in
\* every reachable state, also after a SetLevel on an AtomicLevel used by core
\* or by level.
C11_FilterNeverWidens ==
    \A f \in Filters : \A l \in Levels :
        FilterEnabled(f, l) => WrappedEnabled(f, l)

\* C11 amended: f.Enabled(l) implies core.Enabled(l) in every state where the
\* AtomicLevels used by core and by level hold the values they held at the
\* construction (always, when neither is an AtomicLevel); whatever SetLevel
\* did since, f.Check adds the wrapped core only for a level that both f and
\* the wrapped core enable.
C11_FilterNarrowsAsConstructed ==
    \A f \in Filters : \A l \in Levels :
        /\ AsConstructed(f) => (FilterEnabled(f, l) => WrappedEnabled(f, l))
        /\ LET ret == CoreCheck(FilterNow(f, atom), MkEntry(l, 1), NilHandle(ce))
           IN  ~ret.isNil <=> FilterEnabled(f, l) /\ WrappedEnabled(f, l)

C11_Witness ==
    \E f \in Filters :
        /\ f.level.atomic /\ ~f.core.atomic
        /\ last.op = "SetLevel" /\ last.a = f.level.a
        /\ FilterEnabled(f, DebugLevel)
        /\ ~WrappedEnabled(f, DebugLevel)
        /\ CoreCheck(FilterNow(f, atom), MkEntry(DebugLevel, 1), NilHandle(ce)).isNil

(***************************************************************************)
(* Compositions of cores: Enabled, Level, Check and Write of a tee, of a   *)
(* levelFilterCore and of a hooked core, each called once on a composition *)
(* that was built before.                                                  *)
(***************************************************************************)
\* the hooks registered on a hooked core: h1..hNHooks
NHooks == 2

\* for lvl := _minLevel; lvl <= _maxLevel; lvl++ { if enab.Enabled(lvl) {
\* return lvl } }; return InvalidLevel: on is the set of the enabled levels
RECURSIVE scanEnabled(_, _)
scanEnabled(on, lvl) ==
    IF ~(lvl <= maxLevel) THEN InvalidLevel
    ELSE IF lvl \in on THEN lvl
    ELSE scanEnabled(on, lvl + 1)

\* LevelOf of a static Level, which has no Level method
LevelOfLevel(l) == scanEnabled({x \in Levels : LevelEnabled(l, x)}, minLevel)

\* func LevelOf(enab LevelEnabler) Level, and the Level methods of ioCore,
\* multiCore, levelFilterCore and hooked; nopCore has none
RECURSIVE LevelOf(_)
RECURSIVE multiCoreLevel(_, _, _)
LevelOf(c) ==
    CASE c.kind = "nop" -> scanEnabled({}, minLevel)
      [] c.kind = "io" -> LevelOfLevel(c.enab)
      [] c.kind = "multi" -> multiCoreLevel(c.kids, 1, maxLevel)
      [] c.kind = "levelFilter" -> LevelOfLevel(c.enab)
      [] c.kind = "hooked" -> LevelOf(c.kids[1])
\* func (mc multiCore) Level() Level: minLvl := _maxLevel; for i := range mc {
\* if lvl := LevelOf(mc[i]); lvl < minLvl { minLvl = lvl } }
multiCoreLevel(mc, j, minLvl) ==
    IF j > Len(mc) THEN minLvl
    ELSE LET lvl == LevelOf(mc[j])
         IN  multiCoreLevel(mc, j + 1, IF lvl < minLvl THEN lvl ELSE minLvl)

\* func (nopCore) Write(Entry, []Field) error and func (nopCore) Sync() error
nopCoreWrite(ent, fields) == NoErr
nopCoreSync == NoErr

\* faulty variant: the loop stops at the first hook that returns an error
RECURSIVE hookedWriteStopsAtError(_, _, _, _)
hookedWriteStopsAtError(ent, hookAns, i, acc) ==
    IF i > Len(hookAns) \/ acc.err # NoErr THEN acc
    ELSE LET e == IF hookAns[i] = "ok" THEN NoErr ELSE <<i>>
         IN  hookedWriteStopsAtError(ent, hookAns, i + 1,
                 [ev |-> Append(acc.ev, [func |-> i, args |-> <<ent>>]),
                  err |-> multierrAppend(acc.err, e)])

\* func (h *hooked) Write(ent Entry, _ []Field) error; hookAns[i]: what
\* h.funcs[i] returns, its error is named i
RECURSIVE hookedWrite(_, _, _, _)
hookedWrite(ent, hookAns, i, acc) ==
    IF i > Len(hookAns) THEN acc
    ELSE LET e == IF hookAns[i] = "ok" THEN NoErr ELSE <<i>>
         IN  hookedWrite(ent, hookAns, i + 1,
                 [ev |-> Append(acc.ev, [func |-> i, args |-> <<ent>>]),
                  err |-> multierrAppend(acc.err, e)])

\* the loop of CheckedEntry.Write over ce.cores, for the calls it makes on
\* the hooked core named hk
RECURSIVE writeHooked(_, _, _, _, _, _)
writeHooked(cores, j, hk, ent, hookAns, acc) ==
    IF j > Len(cores) THEN acc
    ELSE IF cores[j] # hk THEN writeHooked(cores, j + 1, hk, ent, hookAns, acc)
    ELSE LET r == hookedWrite(ent, hookAns, 1, NoCalls)
         IN  writeHooked(cores, j + 1, hk, ent, hookAns,
                 [ev |-> acc.ev \o r.ev, err |-> multierrAppend(acc.err, r.err)])

\* a core that an earlier Check has put on the CheckedEntry
PriorCore == 2 * NCores + 1
\* the name of the hooked core in slot j of a tee
HookedId(j) == NCores + j

\* core.Check(ent, ce) with ce nil, or holding PriorCore
TreeCheck(core, lvl, t, prior) ==
    /\ last = NoCall
    /\ LET ent == MkEntry(lvl, t)
           pre == IF prior THEN AddCoreH(NilHandle(ce), ent, PriorCore)
                  ELSE NilHandle(ce)
       IN  last' = [op |-> "Check", core |-> core, ent |-> ent, pre |-> pre,
                    ret |-> CoreCheck(core, ent, pre)]
    /\ UNCHANGED <<ce, allocd, pooled, owner, holds, wrote, halted, given, logger,
                   atom, passed, calls, encs, built, extra>>

\* core.Level() through LevelOf, and core.Enabled(l) for every level
TreeLevel(core) ==
    /\ last = NoCall
    /\ last' = [op |-> "Level", core |-> core, level |-> LevelOf(core),
                on |-> {l \in Levels : CoreEnabled(core, l)}]
    /\ UNCHANGED <<ce, allocd, pooled, owner, holds, wrote, halted, given, logger,
                   atom, passed, calls, encs, built, extra>>

\* NewTee(cores...)
TeeOf(cores) ==
    /\ last = NoCall
    /\ last' = [op |-> "NewTee", cores |-> cores, ret |-> NewTee(cores)]
    /\ UNCHANGED <<ce, allocd, pooled, owner, holds, wrote, halted, given, logger,
                   atom, passed, calls, encs, built, extra>>

\* ce := core.Check(ent, nil); if ce != nil { ce.Write(fields...) } on a
\* hooked core
HookedCycle(core, lvl, t, hookAns) ==
    /\ last = NoCall
    /\ LET ent == MkEntry(lvl, t)
           ret == CoreCheck(core, ent, NilHandle(ce))
           w == IF ret.isNil THEN NoCalls
                ELSE writeHooked(ret.c.cores, 1, core.id, ent, hookAns, NoCalls)
       IN  last' = [op |-> "cycle", core |-> core, ent |-> ent,
                    fields |-> FieldsOf(t), hookAns |-> hookAns, ret |-> ret,
                    ev |-> w.ev, err |-> w.err]
    /\ UNCHANGED <<ce, allocd, pooled, owner, holds, wrote, halted, given, logger,
                   atom, passed, calls, encs, built, extra>>

\* the thresholds of the leaf cores of a composition
SlotLevels == {InfoLevel, ErrorLevel, InvalidLevel}
\* the thresholds l of a core and f of a level for which
\* NewIncreaseLevelCore returns a core
Increases ==
    {p \in SlotLevels \X StaticLevels :
        ~NewIncreaseLevelCore(EnabledLevels(StaticEnab(p[1]), atom),
                              EnabledLevels(StaticEnab(p[2]), atom)).isNil}
\* the cores that can stand in slot j of a tee: the no-op core, an ioCore, a
\* hooked core over one of them, a levelFilterCore over an ioCore
SlotLeaves(j) == {NopCore} \cup {IoCore(j, l) : l \in SlotLevels}
Slot(j) ==
    SlotLeaves(j) \cup
    {RegisterHooks(c, HookedId(j)) : c \in SlotLeaves(j)} \cup
    {LevelFilterCore(IoCore(j, p[1]), p[2]) : p \in Increases}
\* the argument lists of NewTee: one core for each of the first n slots
RECURSIVE SlotSeqs(_)
SlotSeqs(n) ==
    IF n = 0 THEN {<<>>}
    ELSE {Append(s, c) : s \in SlotSeqs(n - 1), c \in Slot(n)}
TeeArgs == UNION {SlotSeqs(n) : n \in 0..NCores}
Trees == {NewTee(s) : s \in TeeArgs}
HookedCores == {c \in Slot(FirstCore) : c.kind = "hooked"}

NextTree ==
    \/ \E core \in Trees, lvl \in Levels, t \in LogThreads, prior \in BOOLEAN :
          TreeCheck(core, lvl, t, prior)
    \/ \E core \in Trees : TreeLevel(core)
    \/ \E cores \in TeeArgs : TeeOf(cores)
    \/ \E core \in HookedCores, lvl \in Levels, t \in LogThreads :
          \E hookAns \in [1..NHooks -> {"ok", "error"}] :
              HookedCycle(core, lvl, t, hookAns)

SpecTree == Init /\ [][NextTree]_vars

(***************************************************************************)
(* Properties of the compositions.                                         *)
(***************************************************************************)
\* the leaf that decides for a slot core, and whether it accepts a level
Decider(c) == IF c.kind = "io" \/ c.kind = "nop" THEN c ELSE c.kids[1]
LeafAccepts(c, l) == c.kind = "io" /\ l >= c.enab
\* a child of a tee enables l
ChildOn(c, l) ==
    IF c.kind = "levelFilter" THEN l >= c.enab
    ELSE LeafAccepts(Decider(c), l)
\* the cores a Check has put on the CheckedEntry it was given
Added(pre, ret) ==
    IF ret.isNil THEN <<>>
    ELSE IF pre.isNil THEN ret.c.cores
    ELSE SubSeq(ret.c.cores, Len(pre.c.cores) + 1, Len(ret.c.cores))
CheckedKind(kind) == last.op = "Check" /\ last.core.kind = kind

\* C12: levelFilterCore.Check returns ce unchanged when the new enabler
\* disables the level of the entry and the result of the wrapped core's Check
\* otherwise, so the wrapped core is put on the CheckedEntry exactly when the
\* new enabler and the wrapped core both accept the level.
C12_FilterCheckNeedsBoth ==
    CheckedKind("levelFilter") =>
        LET f == last.core
            w == f.kids[1]
            l == last.ent.Level
        IN  /\ ~(l >= f.enab) => last.ret = last.pre
            /\ l >= f.enab => last.ret = CoreCheck(w, last.ent, last.pre)
            /\ Added(last.pre, last.ret) =
                  (IF l >= f.enab /\ l >= w.enab THEN <<w.id>> ELSE <<>>)

C12_Witness ==
    /\ CheckedKind("levelFilter")
    /\ last.core.enab = ErrorLevel
    /\ last.core.kids[1].enab = InfoLevel
    /\ last.ent.Level = WarnLevel
    /\ ~last.pre.isNil
    /\ last.ret = last.pre

\* C13: a tee of two or more cores enables a level exactly when at least one
\* of its children enables it.
C13_TeeEnabledIsOr ==
    (last.op = "Level" /\ last.core.kind = "multi") =>
        \A l \in Levels :
            l \in last.on <=>
                \E j \in 1..Len(last.core.kids) : ChildOn(last.core.kids[j], l)

C13_Witness ==
    /\ last.op = "Level" /\ last.core.kind = "multi"
    /\ InfoLevel \in last.on
    /\ ChildOn(last.core.kids[1], InfoLevel)
    /\ ~ChildOn(last.core.kids[2], InfoLevel)

\* LevelOf of a child of a tee, from its enabler
ThresholdLevel(l) ==
    IF l > maxLevel THEN InvalidLevel ELSE IF l < minLevel THEN minLevel ELSE l
ChildLevel(c) ==
    CASE c.kind = "nop" -> InvalidLevel
      [] c.kind = "io" -> ThresholdLevel(c.enab)
      [] c.kind = "levelFilter" -> ThresholdLevel(c.enab)
      [] c.kind = "hooked" ->
            IF c.kids[1].kind = "nop" THEN InvalidLevel
            ELSE ThresholdLevel(c.kids[1].enab)
Least(S) == CHOOSE m \in S : \A x \in S : m <= x

\* C14: the Level of a multiCore built by NewTee from two or more cores is
\* the minimum of LevelOf over its children, InvalidLevel when every child
\* reports InvalidLevel.
C14_TeeLevelIsMin ==
    (last.op = "Level" /\ last.core.kind = "multi") =>
        last.level =
            Least({ChildLevel(last.core.kids[j]) : j \in 1..Len(last.core.kids)})

\* C15: NewTee with no argument returns a core that behaves as the no-op
\* core: no level enabled, Check returns the CheckedEntry it is given, Write
\* and Sync return nil; NewTee with one argument returns that core itself.
C15_TeeOfNoneAndOne ==
    last.op = "NewTee" =>
        /\ Len(last.cores) = 0 =>
              /\ \A l \in Levels : ~CoreEnabled(last.ret, l)
              /\ \A l \in Levels, prior \in BOOLEAN :
                    LET ent == MkEntry(l, FirstCore)
                        pre == IF prior
                               THEN AddCoreH(NilHandle(ce), ent, PriorCore)
                               ELSE NilHandle(ce)
                    IN  CoreCheck(last.ret, ent, pre) = pre
              /\ last.ret.kind = "nop"
              /\ nopCoreWrite(ZeroEntry, Nil) = NoErr
              /\ nopCoreSync = NoErr
        /\ Len(last.cores) = 1 => last.ret = last.cores[1]

C15_Witness ==
    /\ last.op = "NewTee"
    /\ Len(last.cores) = 1
    /\ last.cores[1].kind = "io"
    /\ last.ret = last.cores[1]

\* the errors of the hooks that failed, in the order of the hooks
RECURSIVE FailedHooks(_, _)
FailedHooks(hookAns, i) ==
    IF i > Len(hookAns) THEN <<>>
    ELSE (IF hookAns[i] = "ok" THEN <<>> ELSE <<i>>) \o FailedHooks(hookAns, i + 1)

\* C16: one Check and Write on a hooked core, for an entry its wrapped core
\* accepts, calls every hook exactly once, in the order of registration, with
\* the entry and not the fields, goes on after a hook that fails, and the
\* Write of the hooked core returns exactly the errors of the failing hooks.
C16_EveryHookOnceInOrder ==
    (last.op = "cycle" /\ LeafAccepts(last.core.kids[1], last.ent.Level)) =>
        /\ ~last.ret.isNil
        /\ Len(last.ev) = NHooks
        /\ \A i \in 1..NHooks :
              last.ev[i] = [func |-> i, args |-> <<last.ent>>]
        /\ last.err = FailedHooks(last.hookAns, 1)
        /\ last.err = NoErr <=> \A i \in 1..NHooks : last.hookAns[i] = "ok"

C16_Witness ==
    /\ last.op = "cycle"
    /\ LeafAccepts(last.core.kids[1], last.ent.Level)
    /\ last.hookAns[1] = "error"
    /\ last.hookAns[NHooks] = "ok"
    /\ Len(last.ev) = NHooks
    /\ last.err = <<1>>

\* the hooked cores of the composition that was checked
HookedIn(core) ==
    IF core.kind = "hooked" THEN {core}
    ELSE IF core.kind = "multi"
    THEN {core.kids[j] : j \in {i \in 1..Len(core.kids) :
                                    core.kids[i].kind = "hooked"}}
    ELSE {}

\* C17: a hooked core puts itself on the CheckedEntry only for an entry that
\* its own wrapped core decided to log, in every composition, also as a later
\* child of a tee whose earlier child has accepted the entry.
C17_HookedOnlyIfWrappedLogs ==
    last.op = "Check" =>
        \A h \in HookedIn(last.core) :
            h.id \in Range(Added(last.pre, last.ret)) =>
                LeafAccepts(h.kids[1], last.ent.Level)

(***************************************************************************)
(* Concurrent SetLevel, Level and Enabled calls on one AtomicLevel.        *)
(***************************************************************************)
\* lvl.Level(): one atomic load
LevelLoad(t, a) ==
    /\ calls[t] = NoCallIn
    /\ last' = [op |-> "Level", t |-> t, a |-> a, v |-> AtomicLevelLevel(atom, a)]
    /\ UNCHANGED <<ce, allocd, pooled, owner, holds, wrote, halted, given, logger,
                   atom, passed, calls, encs, built, extra>>

\* lvl.Enabled(l): one atomic load and a comparison with what it returned
EnabledLoad(t, a, l) ==
    /\ calls[t] = NoCallIn
    /\ last' = [op |-> "Enabled", t |-> t, a |-> a, l |-> l,
                res |-> AtomicLevelEnabled(atom, a, l)]
    /\ UNCHANGED <<ce, allocd, pooled, owner, holds, wrote, halted, given, logger,
                   atom, passed, calls, encs, built, extra>>

\* the AtomicLevel the threads share
SharedLevel == "a"

NextAtomic ==
    \/ \E t \in Threads, x \in SetLevels : SetLevelCall(t, SharedLevel, x)
    \/ \E t \in Threads : SetLevelStore(t)
    \/ \E t \in Threads : LevelLoad(t, SharedLevel)
    \/ \E t \in Threads, l \in Levels : EnabledLoad(t, SharedLevel, l)

SpecAtomic == Init /\ [][NextAtomic]_vars

\* the whole values the cell can hold: the initial level and the levels
\* passed to SetLevel so far
WholeValues(a) == {InfoLevel} \cup passed[a]
NoSetLevelInProgress == \A t \in Threads : calls[t] = NoCallIn

\* C18: under every interleaving of SetLevel, Level and Enabled calls on one
\* AtomicLevel, Level returns the initial level or a level passed to some
\* SetLevel call, and Enabled(l) returns l >= v for one such v; once
\* SetLevel(Error) has returned on a level that started at Info, Enabled(Warn)
\* is false and Enabled(Error) is true.
C18_LoadsReturnWholeValues ==
    /\ last.op = "Level" => last.v \in WholeValues(last.a)
    /\ last.op = "Enabled" =>
          \E v \in WholeValues(last.a) : last.res <=> last.l >= v
    /\ (/\ last.op = "Enabled"
        /\ passed[last.a] = {ErrorLevel}
        /\ NoSetLevelInProgress) =>
          /\ last.l = WarnLevel => ~last.res
          /\ last.l = ErrorLevel => last.res

C18_Witness ==
    /\ last.op = "Level"
    /\ last.v = DebugLevel
    /\ passed[last.a] = {DebugLevel, ErrorLevel}
    /\ \E t \in Threads : calls[t] # NoCallIn /\ calls[t].x = ErrorLevel

(***************************************************************************)
(* ioCores built by NewCore and derived by With, their encoders, and the   *)
(* AtomicLevel they share.  encs is the heap of encoders (each one the     *)
(* context fields it has accumulated), built the ioCores made so far.      *)
(***************************************************************************)
\* enc.Clone(): a new encoder holding a copy of the receiver's context
EncoderClone(heap, e) == Append(heap, heap[e])
\* addFields(enc, fields): the fields are added to that encoder
addFields(heap, e, fields) == [heap EXCEPT ![e] = @ \o fields]
\* enc.EncodeEntry(ent, fields): the accumulated context, then the fields
EncodeEntry(heap, e, fields) == heap[e] \o fields

\* faulty variant: the clone reads the level once instead of keeping the enabler
ioCoreCloneSnapshotsLevel(c, heap) ==
    [core |-> [enab |-> StaticEnab(Threshold(c.enab, atom)), enc |-> Len(heap) + 1],
     heap |-> EncoderClone(heap, c.enc)]

\* faulty variant: the clone keeps the receiver's encoder
ioCoreCloneSharesEncoder(c, heap) ==
    [core |-> [enab |-> c.enab, enc |-> c.enc],
     heap |-> heap]

\* c.clone(): the same LevelEnabler (for an AtomicLevel, the same cell), a
\* clone of the encoder
ioCoreClone(c, heap) ==
    [core |-> [enab |-> c.enab, enc |-> Len(heap) + 1],
     heap |-> EncoderClone(heap, c.enc)]

\* c.With(fields)
ioCoreWith(c, heap, fields) ==
    LET cl == ioCoreClone(c, heap)
    IN  [core |-> cl.core, heap |-> addFields(cl.heap, cl.core.enc, fields)]

\* the field a With call adds for the core it makes, and the field a thread
\* passes to Write
CtxField(i) == NThreads + i
CtxFields(i) == <<CtxField(i)>>

\* the enablers the cores are built on
WithEnablers == {AtomicEnab(SharedLevel), StaticEnab(InfoLevel)}

\* NewCore(enc, ws, enab) on a new encoder; the cores are built before any
\* core is derived from them
NewCoreOn(enab) ==
    /\ Len(built) <= NCores
    /\ \A i \in DOMAIN built : built[i].parent = Nil
    /\ encs' = Append(encs, <<>>)
    /\ built' = Append(built, [enab |-> enab, enc |-> Len(encs) + 1,
                               parent |-> Nil, own |-> <<>>])
    /\ last' = [op |-> "NewCore", core |-> Len(built) + 1]
    /\ UNCHANGED <<ce, allocd, pooled, owner, holds, wrote, halted, given, logger,
                   atom, passed, calls, extra>>

\* built[i].With(fields)
WithOn(i) ==
    /\ Len(built) <= NCores
    /\ LET n == Len(built) + 1
           r == ioCoreWith(built[i], encs, CtxFields(n))
       IN  /\ encs' = r.heap
           /\ built' = Append(built, [enab |-> r.core.enab, enc |-> r.core.enc,
                                      parent |-> i, own |-> CtxFields(n)])
           /\ last' = [op |-> "With", core |-> n]
    /\ UNCHANGED <<ce, allocd, pooled, owner, holds, wrote, halted, given, logger,
                   atom, passed, calls, extra>>

\* built[i].Check(ent, nil)
CheckOn(i, lvl, t) ==
    /\ LET ent == MkEntry(lvl, t)
       IN  last' = [op |-> "ioCore.Check", core |-> i, ent |-> ent,
                    ret |-> CoreCheck(IoCoreNow(i, built[i].enab, atom), ent,
                                      NilHandle(ce))]
    /\ UNCHANGED <<ce, allocd, pooled, owner, holds, wrote, halted, given, logger,
                   atom, passed, calls, encs, built, extra>>

\* built[i].Write(ent, fields): what the encoder is asked to encode
EncodeOn(i, t) ==
    /\ last' = [op |-> "ioCore.Write", core |-> i, fields |-> <<FieldsOf(t)>>,
                encoded |-> EncodeEntry(encs, built[i].enc, <<FieldsOf(t)>>)]
    /\ UNCHANGED <<ce, allocd, pooled, owner, holds, wrote, halted, given, logger,
                   atom, passed, calls, encs, built, extra>>

NextWith ==
    \/ \E enab \in WithEnablers : NewCoreOn(enab)
    \/ \E i \in DOMAIN built : WithOn(i)
    \/ \E i \in DOMAIN built, lvl \in Levels, t \in LogThreads : CheckOn(i, lvl, t)
    \/ \E i \in DOMAIN built, t \in LogThreads : EncodeOn(i, t)
    \/ \E t \in Threads, x \in SetLevels : SetLevelCall(t, SharedLevel, x)
    \/ \E t \in Threads : SetLevelStore(t)

SpecWith == Init /\ [][NextWith]_vars

\* the AtomicLevel a core was built on: that of the core NewCore made and
\* every core derived from it ("" for a static Level)
RECURSIVE BuiltOn(_)
BuiltOn(i) ==
    IF built[i].parent = Nil THEN built[i].enab.a ELSE BuiltOn(built[i].parent)

\* the context a core has to encode: its parent's, then its own added fields
RECURSIVE Context(_)
Context(i) ==
    IF built[i].parent = Nil THEN built[i].own
    ELSE Context(built[i].parent) \o built[i].own

Contains(s, x) == \E j \in DOMAIN s : s[j] = x

\* C19: once a SetLevel(x) call has returned and no SetLevel is in progress,
\* every core built on that AtomicLevel, and every core derived from one by
\* With, has Enabled(l) = (l >= x) for every level l, and a Check made while x
\* is the only level ever set adds the core exactly for the levels l >= x.
C19_SharedLevelChangesEveryCore ==
    /\ (last.op = "SetLevel" /\ NoSetLevelInProgress) =>
          \A i \in DOMAIN built : BuiltOn(i) = last.a =>
              \A l \in Levels :
                  EnablerEnabled(built[i].enab, l, atom) <=> l >= last.x
    /\ (last.op = "ioCore.Check" /\ NoSetLevelInProgress) =>
          \A x \in SetLevels :
              (BuiltOn(last.core) # "" /\ passed[BuiltOn(last.core)] = {x}) =>
                  (~last.ret.isNil <=> last.ent.Level >= x)

C19_Witness ==
    /\ last.op = "SetLevel" /\ NoSetLevelInProgress
    /\ last.x = ErrorLevel
    /\ \E i, j \in DOMAIN built :
          /\ built[i].parent = Nil /\ built[j].parent = i
          /\ BuiltOn(i) = last.a
          /\ ~EnablerEnabled(built[j].enab, WarnLevel, atom)

\* C20: every ioCore encodes exactly its parent's context followed by the
\* fields its own With call added, whatever With calls and writes happen on
\* the cores derived from it: the context of a core never changes, and two
\* cores derived from the same parent never encode each other's fields.
C20_WithIsolatesContext ==
    /\ \A i \in DOMAIN built : encs[built[i].enc] = Context(i)
    /\ last.op = "ioCore.Write" =>
          last.encoded = Context(last.core) \o last.fields
    /\ \A i, j \in DOMAIN built :
          (i # j /\ built[i].parent # Nil /\ built[i].parent = built[j].parent) =>
              ~Contains(encs[built[i].enc], CtxField(j))

C20_Witness ==
    /\ last.op = "ioCore.Write"
    /\ built[last.core].parent = Nil
    /\ \E i, j \in DOMAIN built :
          /\ i # j
          /\ built[i].parent = last.core /\ built[j].parent = last.core
    /\ last.encoded = last.fields

(***************************************************************************)
(* The pure functions of Level: LevelOf on a LevelEnabler, Level.Enabled,  *)
(* and the text form of Level and AtomicLevel.  Each is called once, on    *)
(* any input.                                                              *)
(***************************************************************************)
\* Level values around the named ones: Level is an int8, and a Level outside
\* Debug..Fatal is a legal value
LevelRange == (minLevel - 1)..(InvalidLevel + 1)

\* a LevelEnabler: the levels of Debug..Fatal it enables, and the Level
\* method it has if it is a leveledEnabler
FuncEnabler(on) == [leveled |-> FALSE, level |-> InvalidLevel, on |-> on]
LeveledEnabler(level, on) == [leveled |-> TRUE, level |-> level, on |-> on]
\* a static Level has no Level method
LevelEnabler(t) == FuncEnabler({l \in Levels : LevelEnabled(t, l)})

\* faulty variant: the Level method is not looked for
LevelOfAlwaysProbes(enab) == scanEnabled(enab.on, minLevel)

\* func LevelOf(enab LevelEnabler) Level
LevelOfEnabler(enab) ==
    IF enab.leveled THEN enab.level
    ELSE scanEnabled(enab.on, minLevel)

LevelOfCall(enab) ==
    /\ last = NoCall
    /\ last' = [op |-> "LevelOf", enab |-> enab, ret |-> LevelOfEnabler(enab)]
    /\ UNCHANGED <<ce, allocd, pooled, owner, holds, wrote, halted, given, logger,
                   atom, passed, calls, encs, built, extra>>

\* t.Enabled(l) for every l, and t2.Enabled(l) for every l
LevelEnabledCall(t, t2) ==
    /\ last = NoCall
    /\ last' = [op |-> "Level.Enabled", t |-> t, t2 |-> t2,
                on |-> {l \in LevelRange : LevelEnabled(t, l)},
                on2 |-> {l \in LevelRange : LevelEnabled(t2, l)}]
    /\ UNCHANGED <<ce, allocd, pooled, owner, holds, wrote, halted, given, logger,
                   atom, passed, calls, encs, built, extra>>

\* func (l Level) String() string
LevelString(l) ==
    CASE l = DebugLevel -> "debug"
      [] l = InfoLevel -> "info"
      [] l = WarnLevel -> "warn"
      [] l = ErrorLevel -> "error"
      [] l = DPanicLevel -> "dpanic"
      [] l = PanicLevel -> "panic"
      [] l = FatalLevel -> "fatal"
      [] OTHER -> "Level(" \o ToString(l) \o ")"

\* func (l Level) MarshalText() ([]byte, error)
LevelMarshalText(l) == LevelString(l)

\* bytes.ToLower on the texts of the model
ToLower(text) ==
    CASE text = "DEBUG" -> "debug"
      [] text = "INFO" -> "info"
      [] text = "Info" -> "info"
      [] text = "WARN" -> "warn"
      [] text = "WARNING" -> "warning"
      [] text = "ERROR" -> "error"
      [] text = "DPANIC" -> "dpanic"
      [] text = "PANIC" -> "panic"
      [] text = "FATAL" -> "fatal"
      [] text = "Level(6)" -> "level(6)"
      [] OTHER -> text

\* faulty variant: the case of "dpanic" is missing
unmarshalTextWithoutDPanic(l, text) ==
    CASE text = "debug" -> [ok |-> TRUE, l |-> DebugLevel]
      [] text = "info" \/ text = "" -> [ok |-> TRUE, l |-> InfoLevel]
      [] text = "warn" \/ text = "warning" -> [ok |-> TRUE, l |-> WarnLevel]
      [] text = "error" -> [ok |-> TRUE, l |-> ErrorLevel]
      [] text = "panic" -> [ok |-> TRUE, l |-> PanicLevel]
      [] text = "fatal" -> [ok |-> TRUE, l |-> FatalLevel]
      [] OTHER -> [ok |-> FALSE, l |-> l]

\* func (l *Level) unmarshalText(text []byte) bool: l is *l before the call
unmarshalText(l, text) ==
    CASE text = "debug" -> [ok |-> TRUE, l |-> DebugLevel]
      [] text = "info" \/ text = "" -> [ok |-> TRUE, l |-> InfoLevel]
      [] text = "warn" \/ text = "warning" -> [ok |-> TRUE, l |-> WarnLevel]
      [] text = "error" -> [ok |-> TRUE, l |-> ErrorLevel]
      [] text = "dpanic" -> [ok |-> TRUE, l |-> DPanicLevel]
      [] text = "panic" -> [ok |-> TRUE, l |-> PanicLevel]
      [] text = "fatal" -> [ok |-> TRUE, l |-> FatalLevel]
      [] OTHER -> [ok |-> FALSE, l |-> l]

\* func (l *Level) UnmarshalText(text []byte) error, on a non-nil l
LevelUnmarshalText(l, text) ==
    LET r == unmarshalText(l, text)
    IN  IF r.ok THEN r ELSE unmarshalText(r.l, ToLower(text))

\* func (lvl *AtomicLevel) UnmarshalText(text []byte) error: var l
\* zapcore.Level is the zero Level
AtomicLevelUnmarshalText(cells, a, text) ==
    LET r == LevelUnmarshalText(InfoLevel, text)
    IN  [ok |-> r.ok,
         cells |-> IF r.ok THEN AtomicLevelStore(cells, a, r.l) ELSE cells]

\* func (lvl AtomicLevel) MarshalText() (text []byte, err error)
AtomicLevelMarshalText(cells, a) == LevelMarshalText(AtomicLevelLevel(cells, a))

\* the AtomicLevel that is unmarshaled into
OtherLevel == "b"

\* l.MarshalText(), then UnmarshalText of that text into a Level that held
\* prior; the same through an AtomicLevel set to l and another AtomicLevel
MarshalCall(l, prior) ==
    /\ last = NoCall
    /\ LET text == LevelMarshalText(l)
           r == LevelUnmarshalText(prior, text)
           cells == AtomicLevelStore(atom, SharedLevel, l)
           atext == AtomicLevelMarshalText(cells, SharedLevel)
           ar == AtomicLevelUnmarshalText(cells, OtherLevel, atext)
       IN  last' = [op |-> "MarshalText", l |-> l, prior |-> prior,
                    text |-> text, ok |-> r.ok, back |-> r.l,
                    atext |-> atext, aok |-> ar.ok,
                    aback |-> AtomicLevelLevel(ar.cells, OtherLevel)]
    /\ UNCHANGED <<ce, allocd, pooled, owner, holds, wrote, halted, given, logger,
                   atom, passed, calls, encs, built, extra>>

\* the texts given to UnmarshalText
Texts ==
    {"", "debug", "info", "warn", "warning", "error", "dpanic", "panic", "fatal",
     "DEBUG", "INFO", "Info", "WARN", "WARNING", "ERROR", "DPANIC", "PANIC",
     "FATAL", "Level(6)", "trace"}

\* UnmarshalText(text) into a Level that held prior and into an AtomicLevel
UnmarshalCall(text, prior) ==
    /\ last = NoCall
    /\ LET r == LevelUnmarshalText(prior, text)
           ar == AtomicLevelUnmarshalText(atom, OtherLevel, text)
       IN  last' = [op |-> "UnmarshalText", text |-> text, prior |-> prior,
                    ok |-> r.ok, l |-> r.l, aok |-> ar.ok,
                    al |-> AtomicLevelLevel(ar.cells, OtherLevel)]
    /\ UNCHANGED <<ce, allocd, pooled, owner, holds, wrote, halted, given, logger,
                   atom, passed, calls, encs, built, extra>>

\* the enablers given to LevelOf
LevelOfEnablers ==
    {FuncEnabler(on) : on \in SUBSET Levels}
    \cup {LevelEnabler(t) : t \in LevelRange}
    \cup {LeveledEnabler(v, on) :
            v \in LevelRange, on \in {{}, Levels, {WarnLevel, FatalLevel}}}
    \cup {LeveledEnabler(v, {l \in Levels : l >= v}) : v \in LevelRange}

NextLevels ==
    \/ \E enab \in LevelOfEnablers : LevelOfCall(enab)
    \/ \E t \in LevelRange, t2 \in LevelRange : LevelEnabledCall(t, t2)
    \/ \E l \in LevelRange, prior \in Levels : MarshalCall(l, prior)
    \/ \E text \in Texts, prior \in Levels : UnmarshalCall(text, prior)

SpecLevels == Init /\ [][NextLevels]_vars

\* C24: LevelOf(e) is e.Level() when e has a Level method; otherwise it is the
\* lowest level of Debug..Fatal that e enables, and InvalidLevel when e
\* enables none of them.
C24_LevelOfMethodOrLowest ==
    last.op = "LevelOf" =>
        IF last.enab.leveled THEN last.ret = last.enab.level
        ELSE IF last.enab.on = {} THEN last.ret = InvalidLevel
        ELSE /\ last.ret \in last.enab.on
             /\ \A l \in last.enab.on : last.ret <= l

C24_Witness ==
    /\ last.op = "LevelOf"
    /\ last.enab.leveled
    /\ last.enab.level = ErrorLevel
    /\ DebugLevel \in last.enab.on

\* the lowercase names of the seven levels
LevelNames == {"debug", "info", "warn", "error", "dpanic", "panic", "fatal"}

\* C25: for a static Level t and every level l, t.Enabled(l) holds exactly
\* when l >= t; so the enabled levels are closed upwards, and a higher
\* threshold t2 >= t enables only levels that t enables too.
C25_EnabledIffAtLeastThreshold ==
    last.op = "Level.Enabled" =>
        /\ \A l \in LevelRange : l \in last.on <=> l >= last.t
        /\ \A l \in last.on, l2 \in LevelRange : l2 >= l => l2 \in last.on
        /\ last.t2 >= last.t => last.on2 \subseteq last.on

C25_Witness ==
    /\ last.op = "Level.Enabled"
    /\ last.t = WarnLevel /\ last.t2 = ErrorLevel
    /\ WarnLevel \in last.on /\ InfoLevel \notin last.on
    /\ WarnLevel \notin last.on2 /\ ErrorLevel \in last.on2

\* C26: for each of the levels Debug..Fatal, UnmarshalText of the text that
\* MarshalText produced gives the same level back, for a Level and for an
\* AtomicLevel, both texts being the same lowercase name; UnmarshalText of the
\* empty text gives Info.
C26_TextRoundTrip ==
    /\ (last.op = "MarshalText" /\ last.l \in Levels) =>
          /\ last.text \in LevelNames /\ last.atext = last.text
          /\ last.ok /\ last.back = last.l
          /\ last.aok /\ last.aback = last.l
    /\ (last.op = "UnmarshalText" /\ last.text = "") =>
          /\ last.ok /\ last.l = InfoLevel
          /\ last.aok /\ last.al = InfoLevel

C26_Witness ==
    /\ last.op = "MarshalText"
    /\ last.l = DPanicLevel /\ last.prior = ErrorLevel
    /\ last.text = "dpanic"
    /\ last.back = DPanicLevel /\ last.aback = DPanicLevel

(***************************************************************************)
(* multiWriteSyncer.Write(p).  The underlying syncers are collaborators:   *)
(* ans[j] is the byte count and the error that syncer j answers.           *)
(***************************************************************************)
\* the most syncers a multiWriteSyncer holds, and len(p)
NSyncers == 3
PLen == 5

\* for _, w := range ws { n, err := w.Write(p); writeErr =
\* multierr.Append(writeErr, err); if nWritten == 0 && n != 0 { nWritten = n }
\* else if n < nWritten { nWritten = n } }; return nWritten, writeErr
RECURSIVE multiWriteSyncerWrite(_, _, _)
multiWriteSyncerWrite(ans, j, acc) ==
    IF j > Len(ans) THEN acc
    ELSE LET n == ans[j].n
             err == IF ans[j].fails THEN <<j>> ELSE NoErr
         IN  multiWriteSyncerWrite(ans, j + 1,
                 [called |-> Append(acc.called, j),
                  err |-> multierrAppend(acc.err, err),
                  n |-> IF acc.n = 0 /\ n # 0 THEN n
                        ELSE IF n < acc.n THEN n
                        ELSE acc.n])

\* ws.Write(p) on a multiWriteSyncer whose syncers answer ans
MultiWrite(ans) ==
    /\ last = NoCall
    /\ last' = [op |-> "multiWriteSyncer.Write", ans |-> ans,
                ret |-> multiWriteSyncerWrite(ans, 1,
                            [called |-> <<>>, err |-> NoErr, n |-> 0])]
    /\ UNCHANGED <<ce, allocd, pooled, owner, holds, wrote, halted, given, logger,
                   atom, passed, calls, encs, built, extra>>

\* what one syncer may answer: io.Writer returns 0 <= n <= len(p)
SyncerAnswers == [n : 0..PLen, fails : BOOLEAN]

\* NewMultiWriteSyncer returns the syncer itself when it is given one
SyncerCounts == (0..NSyncers) \ {1}

NextMultiWrite ==
    \E k \in SyncerCounts : \E ans \in [1..k -> SyncerAnswers] : MultiWrite(ans)

SpecMultiWrite == Init /\ [][NextMultiWrite]_vars

\* the smallest of the byte counts the syncers answered
SmallestCount(ans) ==
    CHOOSE n \in {ans[j].n : j \in DOMAIN ans} : \A j \in DOMAIN ans : n <= ans[j].n
\* the errors of the syncers that failed, in call order
RECURSIVE SyncerErrors(_, _)
SyncerErrors(ans, j) ==
    IF j > Len(ans) THEN NoErr
    ELSE (IF ans[j].fails THEN <<j>> ELSE NoErr) \o SyncerErrors(ans, j + 1)

\* C28: multiWriteSyncer.Write calls Write on every underlying syncer and
\* returns the smallest byte count any of them reported, together with the
\* aggregate of all their errors.
C28_WriteReturnsSmallestCount ==
    (last.op = "multiWriteSyncer.Write" /\ last.ans # <<>>) =>
        /\ last.ret.called = [j \in DOMAIN last.ans |-> j]
        /\ last.ret.err = SyncerErrors(last.ans, 1)
        /\ last.ret.n = SmallestCount(last.ans)

(***************************************************************************)
(* Buffer: a byte slice b.bs with its capacity.  A string or a byte slice  *)
(* is the sequence of its bytes.                                           *)
(***************************************************************************)
\* the most bytes the Buffer is filled with, and the most appends between
\* two Resets
BufMax == 5

NL == "\n"

\* append(b.bs, v...): the slice grows when its capacity is exceeded, to a
\* capacity the runtime picks (slack bytes more than needed)
bufAppend(b, v, slack) ==
    LET bs == b.bs \o v
    IN  [bs |-> bs, cap |-> IF Len(bs) <= b.cap THEN b.cap ELSE Len(bs) + slack]

\* strconv.AppendBool
FormatBool(v) ==
    IF v THEN <<"t", "r", "u", "e">> ELSE <<"f", "a", "l", "s", "e">>

\* faulty variant: Reset drops the slice
BufferResetDropsSlice(b) == [bs |-> <<>>, cap |-> 0]

\* b.bs = b.bs[:0]
BufferReset(b) == [bs |-> <<>>, cap |-> b.cap]

\* if i := len(b.bs) - 1; i >= 0 { if b.bs[i] == '\n' { b.bs = b.bs[:i] } }
BufferTrimNewline(b) ==
    LET i == Len(b.bs)
    IN  IF i >= 1 /\ b.bs[i] = NL
        THEN [bs |-> SubSeq(b.bs, 1, i - 1), cap |-> b.cap]
        ELSE b

\* the capacities the runtime may add when the slice grows
Slack == 0..1

\* AppendByte, AppendBytes, AppendString, AppendBool and Write all append
\* the bytes v
Appends(op, v) ==
    /\ Len(buf.bs) + Len(v) <= BufMax
    /\ Len(appended.pieces) < BufMax
    /\ \E slack \in Slack :
          /\ buf' = bufAppend(buf, v, slack)
          /\ last' = [op |-> op, v |-> v, len |-> Len(buf'.bs), cap |-> buf'.cap]
    /\ appended' = [appended EXCEPT !.pieces = Append(@, v)]
    /\ UNCHANGED <<ce, allocd, pooled, owner, holds, wrote, halted, given, logger,
                   atom, passed, calls, encs, built, mu, inside, lazy, vp>>

AppendString(s) == Appends("AppendString", s)
AppendByte(v) == Appends("AppendByte", <<v>>)
AppendBool(v) == Appends("AppendBool", FormatBool(v))
BufferWrite(bs) == Appends("Write", bs)

\* b.String(), with b.Len() and b.Cap()
BufferString ==
    /\ last' = [op |-> "String", ret |-> buf.bs,
                len |-> Len(buf.bs), cap |-> buf.cap]
    /\ UNCHANGED <<ce, allocd, pooled, owner, holds, wrote, halted, given, logger,
                   atom, passed, calls, encs, built, extra>>

\* b.Reset()
Reset ==
    /\ buf' = BufferReset(buf)
    /\ last' = [op |-> "Reset", before |-> buf,
                len |-> Len(buf'.bs), cap |-> buf'.cap]
    /\ appended' = [pieces |-> <<>>, trimmed |-> FALSE]
    /\ UNCHANGED <<ce, allocd, pooled, owner, holds, wrote, halted, given, logger,
                   atom, passed, calls, encs, built, mu, inside, lazy, vp>>

\* b.TrimNewline()
TrimNewline ==
    /\ buf' = BufferTrimNewline(buf)
    /\ last' = [op |-> "TrimNewline", before |-> buf,
                len |-> Len(buf'.bs), cap |-> buf'.cap]
    /\ appended' = [appended EXCEPT !.trimmed = @ \/ buf' # buf]
    /\ UNCHANGED <<ce, allocd, pooled, owner, holds, wrote, halted, given, logger,
                   atom, passed, calls, encs, built, mu, inside, lazy, vp>>

\* the strings and bytes the callers append
AppendedStrings == {<<>>, <<"a", "b">>, <<"c", "d">>}
AppendedBytes == {NL}
WrittenBytes == {<<"a", NL>>}

NextBuffer ==
    \/ \E s \in AppendedStrings : AppendString(s)
    \/ \E v \in AppendedBytes : AppendByte(v)
    \/ \E v \in BOOLEAN : AppendBool(v)
    \/ \E bs \in WrittenBytes : BufferWrite(bs)
    \/ BufferString
    \/ Reset
    \/ TrimNewline

SpecBuffer == Init /\ [][NextBuffer]_vars

\* the concatenation of the pieces, in order
RECURSIVE Flatten(_)
Flatten(pieces) ==
    IF pieces = <<>> THEN <<>> ELSE Head(pieces) \o Flatten(Tail(pieces))

\* C27 as stated: the content of the Buffer is always the concatenation, in
\* call order, of everything appended since the latest Reset, and Reset sets
\* Len() to 0 and leaves Cap() unchanged.
C27_ContentIsEverythingAppended ==
    /\ buf.bs = Flatten(appended.pieces)
    /\ last.op = "String" => last.ret = Flatten(appended.pieces)
    /\ last.op = "Reset" => last.len = 0 /\ last.cap = last.before.cap

\* C27, amended: as long as TrimNewline has removed no byte since the latest
\* Reset, the content of the Buffer is the concatenation, in call order, of
\* everything appended since that Reset; TrimNewline removes at most the one
\* trailing newline; Reset sets Len() to 0 and leaves Cap() unchanged.
C27_ContentIsAppendedUnlessTrimmed ==
    /\ ~appended.trimmed =>
          /\ buf.bs = Flatten(appended.pieces)
          /\ last.op = "String" => last.ret = Flatten(appended.pieces)
    /\ last.op = "TrimNewline" =>
          \/ buf = last.before
          \/ last.before.bs = buf.bs \o <<NL>> /\ buf.cap = last.before.cap
    /\ last.op = "Reset" => last.len = 0 /\ last.cap = last.before.cap

C27_Witness ==
    /\ last.op = "Reset"
    /\ last.before.bs = <<"a", "b", "c", "d">>
    /\ last.cap >= 4
    /\ buf.bs = <<>>

(***************************************************************************)
(* lockedWriteSyncer: goroutines call Write and Sync on the wrapper.  A    *)
(* call is the sequence of its steps; calls[t] holds the call thread t is  *)
(* in, the step it is at, and whether it is inside the wrapped syncer.     *)
(***************************************************************************)
\* faulty variant: Sync calls the wrapped syncer without the mutex
lockedWriteSyncerStepsSyncUnlocked(op) ==
    IF op = "Write" THEN <<"Lock", "ws.Write", "Unlock">>
    ELSE <<"ws.Sync">>

\* func (s *lockedWriteSyncer) Write: s.Lock(); n, err := s.ws.Write(bs);
\* s.Unlock(); return n, err.  Sync: s.Lock(); err := s.ws.Sync(); s.Unlock()
lockedWriteSyncerSteps(op) ==
    IF op = "Write" THEN <<"Lock", "ws.Write", "Unlock">>
    ELSE <<"Lock", "ws.Sync", "Unlock">>

LockedOps == {"Write", "Sync"}
InLocked(t) == calls[t] # NoCallIn /\ calls[t].op \in LockedOps
StepOf(t) == lockedWriteSyncerSteps(calls[t].op)[calls[t].pc]

\* the call returns after its last step
Advance(t, ans) ==
    IF calls[t].pc < Len(lockedWriteSyncerSteps(calls[t].op))
    THEN /\ calls' = [calls EXCEPT ![t].pc = @ + 1, ![t].ans = ans]
         /\ last' = last
    ELSE /\ calls' = [calls EXCEPT ![t] = NoCallIn]
         /\ last' = [op |-> calls[t].op, t |-> t, ret |-> ans]

\* a goroutine calls s.Write(bs) or s.Sync()
LockedCall(t, op) ==
    /\ calls[t] = NoCallIn
    /\ calls' = [calls EXCEPT ![t] = [op |-> op, pc |-> 1, ans |-> NoErr]]
    /\ UNCHANGED <<ce, allocd, pooled, owner, holds, wrote, halted, given, last,
                   logger, atom, passed, encs, built, extra>>

\* s.Lock(): blocks while another goroutine holds the mutex
LockedLock(t) ==
    /\ InLocked(t) /\ StepOf(t) = "Lock"
    /\ mu = Nil
    /\ mu' = t
    /\ Advance(t, calls[t].ans)
    /\ UNCHANGED <<ce, allocd, pooled, owner, holds, wrote, halted, given, logger,
                   atom, passed, encs, built, buf, appended, inside, lazy, vp>>

\* the call of s.ws.Write or s.ws.Sync begins
LockedEnter(t) ==
    /\ InLocked(t) /\ StepOf(t) \in {"ws.Write", "ws.Sync"}
    /\ t \notin inside
    /\ inside' = inside \cup {t}
    /\ UNCHANGED <<ce, allocd, pooled, owner, holds, wrote, halted, given, last,
                   logger, atom, passed, calls, encs, built, buf, appended, mu,
                   lazy, vp>>

\* the call of s.ws.Write or s.ws.Sync returns, with an error or without
LockedLeave(t, fails) ==
    /\ InLocked(t) /\ StepOf(t) \in {"ws.Write", "ws.Sync"}
    /\ t \in inside
    /\ inside' = inside \ {t}
    /\ Advance(t, IF fails THEN <<t>> ELSE NoErr)
    /\ UNCHANGED <<ce, allocd, pooled, owner, holds, wrote, halted, given, logger,
                   atom, passed, encs, built, buf, appended, mu, lazy, vp>>

\* s.Unlock()
LockedUnlock(t) ==
    /\ InLocked(t) /\ StepOf(t) = "Unlock"
    /\ mu' = Nil
    /\ Advance(t, calls[t].ans)
    /\ UNCHANGED <<ce, allocd, pooled, owner, holds, wrote, halted, given, logger,
                   atom, passed, encs, built, buf, appended, inside, lazy, vp>>

NextLocked ==
    \/ \E t \in Threads, op \in LockedOps : LockedCall(t, op)
    \/ \E t \in Threads : LockedLock(t)
    \/ \E t \in Threads : LockedEnter(t)
    \/ \E t \in Threads, fails \in BOOLEAN : LockedLeave(t, fails)
    \/ \E t \in Threads : LockedUnlock(t)

SpecLocked == Init /\ [][NextLocked]_vars

\* C29: no two calls of the wrapped syncer's Write or Sync overlap, whatever
\* the goroutines call on the wrapper; a goroutine is inside the wrapped
\* syncer only while it holds the mutex, and a call that has returned no
\* longer holds it.
C29_WrappedCallsNeverOverlap ==
    /\ Cardinality(inside) <= 1
    /\ \A t \in inside : mu = t
    /\ \A t \in Threads : calls[t] = NoCallIn => mu # t

C29_Witness ==
    /\ \E t \in Threads : t \in inside /\ calls[t].op = "Sync"
    /\ \E u \in Threads : InLocked(u) /\ calls[u].op = "Write" /\ StepOf(u) = "Lock"

(***************************************************************************)
(* Check, then SetLevel, then Write: a logger whose core is a tee of an    *)
(* ioCore on an AtomicLevel and of a level filter, on another AtomicLevel, *)
(* over an ioCore that logs everything.                                    *)
(***************************************************************************)
\* the AtomicLevel under a core: the first core is an ioCore on SharedLevel,
\* every other core sits behind a level filter on OtherLevel
RaisedLevel(k) == IF k = FirstCore THEN SharedLevel ELSE OtherLevel
RaisedCore(k, cells) ==
    IF k = FirstCore THEN IoCoreNow(k, AtomicEnab(SharedLevel), cells)
    ELSE LevelFilterCore(IoCore(k, DebugLevel),
                         Threshold(AtomicEnab(OtherLevel), cells))
RaisedTee(cells) == NewTee([k \in Cores |-> RaisedCore(k, cells)])

\* func (c *levelFilterCore) Write(ent, fields): return c.core.Write(ent, fields)
levelFilterCoreWrite(ent, e, encFails, outFails, syncFails) ==
    ioCoreWrite(ent, e, encFails, outFails, syncFails)

\* ce := core.Check(ent, nil) with the levels as they are now
RaisedCheck(t, lvl) ==
    /\ ~halted
    /\ \A u \in Threads : ~holds[u]
    /\ LET ent == MkEntry(lvl, t)
           r == CoreCheck(RaisedTee(atom), ent, NilHandle(ce))
       IN  /\ IF r.isNil
              THEN UNCHANGED <<ce, allocd, pooled, owner, holds, given>>
              ELSE /\ PoolHasIt
                   /\ Taken(t)
                   /\ ce' = r.c
                   /\ given' = [Entry |-> ent, cores |-> r.c.cores,
                                hook |-> r.c.after, written |-> FALSE,
                                replaced |-> FALSE]
           /\ last' = [op |-> "Check", t |-> t, lvl |-> lvl, isNil |-> r.isNil]
    /\ UNCHANGED <<atom, passed, calls, encs, built, logger, wrote, halted, extra>>

\* ce.Write(fields): sinks[j] are the calls the Write of cores[j] makes on
\* its encoder and its sink
RaisedWrite(t, fields, ans) ==
    /\ ~halted
    /\ holds[t]
    /\ LET r == WriteOn(ce, fields, ans, FALSE)
       IN  /\ ce' = r.ce
           /\ pooled' = IF r.put THEN putCheckedEntry(pooled, FALSE) ELSE pooled
           /\ halted' = (r.result = "exit")
           /\ last' = [op |-> "Write", t |-> t, isNil |-> FALSE,
                       fields |-> fields, ans |-> ans, pre |-> ce,
                       again |-> wrote[t], cur |-> owner = t, was |-> given,
                       ev |-> r.ev, result |-> r.result, put |-> r.put,
                       sinks |-> [j \in DOMAIN ans |->
                                    ioCoreWrite(ce.Entry, ce.cores[j],
                                        ans[j] = "encodeError",
                                        ans[j] = "writeError", FALSE).calls]]
    /\ wrote' = [wrote EXCEPT ![t] = TRUE]
    /\ given' = [given EXCEPT !.written = TRUE]
    /\ UNCHANGED <<atom, passed, calls, encs, built, logger, allocd, owner, holds,
                   extra>>

\* filter.Write(ent, fields) called on the level filter itself
FilterWrite(t, k, lvl, a) ==
    /\ ~halted
    /\ k # FirstCore
    /\ last' = [op |-> "levelFilterCore.Write", t |-> t, core |-> k, lvl |-> lvl,
                ans |-> a,
                calls |-> levelFilterCoreWrite(MkEntry(lvl, t), k,
                              a = "encodeError", a = "writeError", FALSE).calls]
    /\ UNCHANGED <<ce, allocd, pooled, owner, holds, wrote, halted, given, logger,
                   atom, passed, calls, encs, built, extra>>

\* the levels the entries are logged at
RaisedLevels == {InfoLevel, ErrorLevel}

NextRaise ==
    \/ \E t \in LogThreads, lvl \in RaisedLevels : RaisedCheck(t, lvl)
    \/ \E t \in LogThreads, ans \in AnswersFor(ce) :
          RaisedWrite(t, FieldsOf(t), ans)
    \/ \E t \in LogThreads : Drop(t)
    \/ \E t \in LogThreads, k \in Cores, lvl \in RaisedLevels, a \in IoAnswers :
          FilterWrite(t, k, lvl, a)
    \/ \E t \in Threads \ LogThreads, a \in AtomicLevels, x \in SetLevels :
          SetLevelCall(t, a, x)
    \/ \E t \in Threads \ LogThreads : SetLevelStore(t)

SpecRaise == Init /\ [][NextRaise]_vars

\* the core would reject the entry if Check were called now
RejectedNow(k, lvl) == ~AtomicLevelEnabled(atom, RaisedLevel(k), lvl)

\* C30: Write never looks at the level again.  Every core that Check added
\* to the CheckedEntry has its Write called by CheckedEntry.Write with the
\* stashed entry, and that Write encodes the entry and writes it to the sink
\* (unless the encoder fails), whatever the AtomicLevel under the core or
\* under its level filter holds by then; levelFilterCore.Write passes an
\* entry on to the wrapped core whatever the filter's level is.
C30_WriteIgnoresLevel ==
    /\ (last.op = "Write" /\ ~last.isNil /\ ~last.pre.dirty) =>
          /\ Len(CoreEvents(last.ev)) = Len(last.pre.cores)
          /\ \A j \in DOMAIN last.pre.cores :
                /\ CoreEvents(last.ev)[j].core = last.pre.cores[j]
                /\ CoreEvents(last.ev)[j].ent = last.pre.Entry
                /\ last.ans[j] # "encodeError" => Contains(last.sinks[j], "out.Write")
    /\ (last.op = "levelFilterCore.Write" /\ last.ans # "encodeError") =>
          Contains(last.calls, "out.Write")

C30_Witness ==
    /\ last.op = "Write" /\ ~last.isNil /\ ~last.pre.dirty
    /\ last.pre.Entry.Level = InfoLevel
    /\ Len(last.pre.cores) = NCores
    /\ \A j \in DOMAIN last.pre.cores :
          /\ RejectedNow(last.pre.cores[j], InfoLevel)
          /\ Contains(last.sinks[j], "out.Write")

(***************************************************************************)
(* Cores as objects: built is the heap of the ioCore, multiCore,           *)
(* levelFilterCore and hooked values, a child being the place of a core in *)
(* the heap; encs is the heap of their encoders; lazy is a lazyWithCore    *)
(* over one of them.  With makes new objects; the goroutines call the      *)
(* lazyWithCore concurrently, a call being the steps of sync.Once.Do and   *)
(* then the call of the wrapped core.                                      *)
(***************************************************************************)
IoObj(level, enc) ==
    [kind |-> "io", enab |-> StaticEnab(level), enc |-> enc, kids |-> <<>>]
MultiObj(kids) ==
    [kind |-> "multi", enab |-> StaticEnab(InvalidLevel), enc |-> Nil, kids |-> kids]
FilterObj(core, level) ==
    [kind |-> "levelFilter", enab |-> StaticEnab(level), enc |-> Nil,
     kids |-> <<core>>]
HookedObj(core) ==
    [kind |-> "hooked", enab |-> StaticEnab(InvalidLevel), enc |-> Nil,
     kids |-> <<core>>]

\* faulty variant: the children of the receiver are replaced in place
multiCoreWithInPlace(st, i, refs) ==
    [st |-> [st EXCEPT !.cores[i].kids = refs], ref |-> i]

\* clone := make(multiCore, len(mc)); clone[i] = mc[i].With(fields); return
\* clone: refs are the cores the children's With returned
multiCoreWith(st, i, refs) ==
    [st |-> [st EXCEPT !.cores = Append(@, [st.cores[i] EXCEPT !.kids = refs])],
     ref |-> Len(st.cores) + 1]

\* core.With(fields) on the core at place i of the heap st: the heap
\* afterwards and the place of the core returned
RECURSIVE coreWith(_, _, _)
RECURSIVE kidsWith(_, _, _, _, _)
coreWith(st, i, fields) ==
    LET c == st.cores[i]
    IN  CASE c.kind = "io" ->
                LET r == ioCoreWith(c, st.encs, fields)
                IN  [st |-> [cores |-> Append(st.cores,
                                 [c EXCEPT !.enab = r.core.enab, !.enc = r.core.enc]),
                             encs |-> r.heap],
                     ref |-> Len(st.cores) + 1]
          [] c.kind = "multi" ->
                LET r == kidsWith(st, c.kids, 1, fields, <<>>)
                IN  multiCoreWith(r.st, i, r.refs)
          [] OTHER ->
                \* &levelFilterCore{c.core.With(fields), c.level} and
                \* &hooked{Core: h.Core.With(fields), funcs: h.funcs}
                LET r == coreWith(st, c.kids[1], fields)
                IN  [st |-> [r.st EXCEPT !.cores = Append(@,
                                 [c EXCEPT !.kids = <<r.ref>>])],
                     ref |-> Len(r.st.cores) + 1]
kidsWith(st, kids, j, fields, refs) ==
    IF j > Len(kids) THEN [st |-> st, refs |-> refs]
    ELSE LET r == coreWith(st, kids[j], fields)
         IN  kidsWith(r.st, kids, j + 1, fields, Append(refs, r.ref))

\* the core at place i as it decides: for Check and Enabled
RECURSIVE TreeOf(_, _)
TreeOf(cores, i) ==
    LET c == cores[i]
    IN  CASE c.kind = "io" -> IoCore(i, c.enab.v)
          [] c.kind = "multi" ->
                MultiCore([j \in DOMAIN c.kids |-> TreeOf(cores, c.kids[j])])
          [] c.kind = "levelFilter" ->
                LevelFilterCore(TreeOf(cores, c.kids[1]), c.enab.v)
          [] OTHER -> RegisterHooks(TreeOf(cores, c.kids[1]), i)

\* what the ioCores under the core at place i encode on a Write
RECURSIVE Encodes(_, _, _, _)
Encodes(cores, heap, i, fields) ==
    LET c == cores[i]
    IN  IF c.kind = "io" THEN {<<i, EncodeEntry(heap, c.enc, fields)>>}
        ELSE UNION {Encodes(cores, heap, c.kids[j], fields) : j \in DOMAIN c.kids}

Heap == [cores |-> built, encs |-> encs]

\* a core method other than With: nothing is assigned
CoreMethods == {"Check", "Enabled", "Write", "Sync"}
Answer(op, i, lvl, t) ==
    CASE op = "Check" ->
            [isNil |-> CoreCheck(TreeOf(built, i), MkEntry(lvl, t),
                                 NilHandle(ce)).isNil]
      [] op = "Enabled" -> [on |-> CoreEnabled(TreeOf(built, i), lvl)]
      [] op = "Write" -> [encoded |-> Encodes(built, encs, i, <<FieldsOf(t)>>)]
      [] OTHER -> [err |-> NoErr]

\* faulty variant: every method of the lazyWithCore passes the Once
lazyGatedAll(op) == TRUE

\* With and Check call d.initOnce(); Enabled, Write and Sync are the methods
\* of the embedded Core
lazyGated(op) == op \in {"With", "Check"}

\* faulty variant: the function runs whenever the slow path is taken
onceSlowRunsAlways(o) == TRUE

\* sync.Once.Do: if o.done.Load() == 0 { o.doSlow(f) }; doSlow: o.m.Lock();
\* defer o.m.Unlock(); if o.done.Load() == 0 { defer o.done.Store(1); f() }
onceFast(o) == o.done
onceSlowRuns(o) == ~o.done

\* func NewLazyWith(core Core, fields []Field) Core
NewLazyWith(core, fields) ==
    [NoLazyWith EXCEPT !.Core = core, !.fields = fields, !.first = core]

\* the fields given to NewLazyWith, and the fields a With call adds
LazyFields == CtxFields(0)
AddedFields(t) == CtxFields(t)

\* the cores at construction: the leaves 1..NCores, their tee, a level
\* filter over the first leaf and a hooked core over the last one
BuiltCores ==
    [k \in 1..NCores |-> IoObj(LeafLevel(k), k)]
    \o <<MultiObj([k \in 1..NCores |-> k]),
         FilterObj(1, PanicLevel),
         HookedObj(NCores)>>
\* the objects core.With makes on the core at place i
RECURSIVE Size(_, _)
RECURSIVE SizeOfKids(_, _, _)
Size(cores, i) == 1 + SizeOfKids(cores, cores[i].kids, 1)
SizeOfKids(cores, kids, j) ==
    IF j > Len(kids) THEN 0
    ELSE Size(cores, kids[j]) + SizeOfKids(cores, kids, j + 1)

\* the level of the entries of goroutine t
EntryLevel(t) == LeafLevel(t)

InLazy(t, pc) == calls[t] # NoCallIn /\ calls[t].pc = pc

\* the objects the calls in progress are still to make: one With of the
\* wrapped core for the Once, one for every With in progress
Reserved ==
    IF lazy.Core = Nil THEN 0
    ELSE Size(built, lazy.Core)
         * (Cardinality({t \in Threads : calls[t] # NoCallIn /\ calls[t].op = "With"})
            + IF lazy.runs = 0 THEN 1 ELSE 0)
HasRoom(i) == Len(built) + Reserved + Size(built, i) <= HeapMax

\* NewCore, NewTee, NewIncreaseLevelCore, RegisterHooks, and NewLazyWith on
\* one of the cores
BuildCores(wrapped) ==
    /\ built = <<>> /\ lazy = NoLazyWith
    /\ built' = BuiltCores
    /\ encs' = [k \in 1..NCores |-> <<>>]
    /\ lazy' = NewLazyWith(wrapped, LazyFields)
    /\ last' = [op |-> "NewLazyWith", core |-> wrapped]
    /\ UNCHANGED <<ce, allocd, pooled, owner, holds, wrote, halted, given, logger,
                   atom, passed, calls, buf, appended, mu, inside, vp>>

\* core.With(fields) on the core at place i
CoreWithOn(i, t) ==
    /\ calls[t] = NoCallIn
    /\ HasRoom(i)
    /\ LET r == coreWith(Heap, i, AddedFields(t))
       IN  /\ built' = r.st.cores
           /\ encs' = r.st.encs
           /\ last' = [op |-> "With", via |-> "core", recv |-> i, len |-> Len(built), ref |-> r.ref]
    /\ UNCHANGED <<ce, allocd, pooled, owner, holds, wrote, halted, given, logger,
                   atom, passed, calls, buf, appended, mu, inside, lazy, vp>>

\* core.Check, core.Enabled, core.Write or core.Sync on the core at place i
CoreCallOn(i, op, t) ==
    /\ calls[t] = NoCallIn
    /\ last' = [op |-> op, via |-> "core", recv |-> i, ret |-> Answer(op, i, EntryLevel(t), t)]
    /\ UNCHANGED <<ce, allocd, pooled, owner, holds, wrote, halted, given, logger,
                   atom, passed, calls, encs, built, extra>>

\* the call of the wrapped core that ends a method of the lazyWithCore
Forward(t, op) ==
    LET rec == [op |-> op, via |-> "lazy", t |-> t, used |-> lazy.Core,
                done |-> lazy.done, runs |-> lazy.runs, len |-> Len(built)]
    IN  IF op = "With"
        THEN LET r == coreWith(Heap, lazy.Core, AddedFields(t))
             IN  /\ built' = r.st.cores
                 /\ encs' = r.st.encs
                 /\ last' = [ref |-> r.ref] @@ rec
        ELSE /\ UNCHANGED <<built, encs>>
             /\ last' = [ret |-> Answer(op, lazy.Core, EntryLevel(t), t)] @@ rec

\* a goroutine calls a method of the lazyWithCore: With and Check begin with
\* d.initOnce(), that is with if o.done.Load() == 0 { o.doSlow(f) }; the
\* others are the call of the wrapped core
LazyCall(t, op) ==
    /\ lazy.Core # Nil
    /\ calls[t] = NoCallIn
    /\ op = "With" => HasRoom(lazy.Core)
    /\ IF lazyGated(op)
       THEN /\ calls' = [calls EXCEPT ![t] =
                           [op |-> op,
                            pc |-> IF onceFast(lazy) THEN "use" ELSE "lock"]]
            /\ UNCHANGED <<built, encs, last>>
       ELSE /\ Forward(t, op)
            /\ UNCHANGED calls
    /\ lazy' = [lazy EXCEPT !.touched = @ \/ op \in {"With", "Check"}]
    /\ UNCHANGED <<ce, allocd, pooled, owner, holds, wrote, halted, given,
                   logger, atom, passed, buf, appended, mu, inside, vp>>

\* o.m.Lock()
OnceLock(t) ==
    /\ InLazy(t, "lock")
    /\ lazy.m = Nil
    /\ lazy' = [lazy EXCEPT !.m = t]
    /\ calls' = [calls EXCEPT ![t].pc = "slow"]
    /\ UNCHANGED <<ce, allocd, pooled, owner, holds, wrote, halted, given, last,
                   logger, atom, passed, encs, built, buf, appended, mu, inside, vp>>

\* if o.done.Load() == 0 { f() }, f being d.Core = d.Core.With(d.fields)
OnceSlow(t) ==
    /\ InLazy(t, "slow")
    /\ IF onceSlowRuns(lazy)
       THEN LET r == coreWith(Heap, lazy.Core, lazy.fields)
            IN  /\ built' = r.st.cores
                /\ encs' = r.st.encs
                /\ lazy' = [lazy EXCEPT !.Core = r.ref, !.made = r.ref,
                                        !.runs = @ + 1]
       ELSE UNCHANGED <<built, encs, lazy>>
    /\ calls' = [calls EXCEPT ![t].pc = "unlock"]
    /\ UNCHANGED <<ce, allocd, pooled, owner, holds, wrote, halted, given, last,
                   logger, atom, passed, buf, appended, mu, inside, vp>>

\* the deferred o.done.Store(1) and o.m.Unlock()
OnceUnlock(t) ==
    /\ InLazy(t, "unlock")
    /\ lazy' = [lazy EXCEPT !.done = TRUE, !.m = Nil]
    /\ calls' = [calls EXCEPT ![t].pc = "use"]
    /\ UNCHANGED <<ce, allocd, pooled, owner, holds, wrote, halted, given, last,
                   logger, atom, passed, encs, built, buf, appended, mu, inside, vp>>

\* return d.Core.With(fields) or return d.Core.Check(e, ce)
LazyUse(t) ==
    /\ InLazy(t, "use")
    /\ Forward(t, calls[t].op)
    /\ calls' = [calls EXCEPT ![t] = NoCallIn]
    /\ UNCHANGED <<ce, allocd, pooled, owner, holds, wrote, halted, given, logger,
                   atom, passed, extra>>

\* the cores NewLazyWith is given
LazyWrapped == {1, NCores + 1}
LazyMethods == {"With"} \cup CoreMethods

NextLazy ==
    \/ \E wrapped \in LazyWrapped : BuildCores(wrapped)
    \/ \E i \in DOMAIN built, t \in LogThreads : CoreWithOn(i, t)
    \/ \E i \in DOMAIN built, op \in CoreMethods, t \in LogThreads :
          CoreCallOn(i, op, t)
    \/ \E t \in Threads, op \in LazyMethods : LazyCall(t, op)
    \/ \E t \in Threads : OnceLock(t)
    \/ \E t \in Threads : OnceSlow(t)
    \/ \E t \in Threads : OnceUnlock(t)
    \/ \E t \in Threads : LazyUse(t)

SpecLazy == Init /\ [][NextLazy]_vars

\* the cores and encoders there are stay as they are: a step only adds some
HeapKept ==
    /\ Len(built') >= Len(built)
    /\ \A i \in DOMAIN built : built'[i] = built[i]
    /\ Len(encs') >= Len(encs)
    /\ \A e \in DOMAIN encs : encs'[e] = encs[e]
\* the core a With call returned is none of the cores there were before it
WithReturnsNew ==
    last.op = "With" => last.ref > last.len /\ last.ref \in DOMAIN built

\* C21 as stated: for every Core variant (leaf, tee, level filter, hooked,
\* lazy) With returns a new Core, and no operation on a Core modifies the
\* receiver: no step changes a core, an encoder, or the lazy core's reference
\* to the core it wraps
C21_NoOperationModifiesReceiver ==
    [][/\ HeapKept
       /\ lazy.Core # Nil => lazy'.Core = lazy.Core
       /\ WithReturnsNew']_vars

\* C21 amended: With returns a new Core and no operation modifies an ioCore,
\* a multiCore, a levelFilterCore, a hooked core or an encoder; the
\* lazyWithCore's reference to the wrapped core is replaced only by the
\* function its Once runs, inside a With or Check call, by the core that
\* wrapped.With(fields) returned, and Enabled, Write and Sync change nothing
C21_OnlyLazyReferenceIsReplaced ==
    [][/\ HeapKept
       /\ WithReturnsNew'
       /\ (lazy.Core # Nil /\ lazy'.Core # lazy.Core) =>
            /\ \E t \in Threads :
                  /\ calls[t] # NoCallIn /\ calls[t].op \in {"With", "Check"}
                  /\ calls[t].pc = "slow" /\ lazy.m = t
            /\ lazy'.Core > Len(built) /\ lazy'.Core \in DOMAIN built'
            /\ built'[lazy'.Core].kind = built[lazy.Core].kind
       /\ (last' # last /\ last'.op \in {"Enabled", "Write", "Sync", "Check"}) =>
            built' = built /\ encs' = encs]_vars

\* the call that returned last was a call on the lazy core
OnLazy == "via" \in DOMAIN last /\ last.via = "lazy"

\* the Once replaced the lazy core's reference to a tee by the new tee that
\* the tee's With returned, and a Check went through it
C21_Witness ==
    /\ lazy.runs = 1 /\ lazy.Core # lazy.first
    /\ lazy.Core > Len(BuiltCores) /\ built[lazy.Core].kind = "multi"
    /\ built[lazy.first].kind = "multi"
    /\ last.op = "Check" /\ OnLazy /\ last.used = lazy.Core

\* a With or Check call on the lazy core that has returned
GatedDone == last.op \in {"With", "Check"} /\ OnLazy

\* C22: the wrapped core's With(fields) runs at most once, however the first
\* With and Check calls of the goroutines interleave; each of these calls
\* goes on to the wrapped core only after that one run is complete, and
\* uses the core it returned
C22_MaterializedOnce ==
    /\ lazy.runs <= 1
    /\ \A t \in Threads :
          (calls[t] # NoCallIn /\ calls[t].pc = "use") =>
             /\ lazy.done /\ lazy.runs = 1 /\ lazy.Core = lazy.made
             /\ lazy.m # t
    /\ GatedDone =>
          /\ last.done /\ last.runs = 1
          /\ last.used = lazy.made /\ last.used # lazy.first

\* a first call took the slow path while another first call was running the
\* function, found it done already, and the other call has returned
C22_Witness ==
    /\ GatedDone
    /\ lazy.runs = 1
    /\ \E u \in Threads \ {last.t} :
          calls[u] # NoCallIn /\ calls[u].pc = "slow" /\ lazy.done

\* C23: NewLazyWith does not call the wrapped core's With (when it has
\* returned and nothing has been called yet, no core was made); it is called
\* first inside the first With or Check call on the lazy core; as long as
\* only Enabled, Write and Sync have been called it has not been called, and
\* these go to the core NewLazyWith was given
C23_MaterializedOnFirstUse ==
    /\ (last.op = "NewLazyWith" /\ \A t \in Threads : calls[t] = NoCallIn) =>
          built = BuiltCores /\ lazy.runs = 0 /\ lazy.Core = last.core
    /\ lazy.runs > 0 => lazy.touched
    /\ ~lazy.touched => lazy.Core = lazy.first /\ lazy.made = Nil
    /\ GatedDone => last.runs > 0
    /\ (last.op \in {"Enabled", "Write", "Sync"} /\ OnLazy
        /\ ~lazy.touched) => last.runs = 0 /\ last.used = lazy.first

\* Write was called on a lazy core on which With and Check never were
C23_Witness ==
    /\ last.op = "Write" /\ OnLazy
    /\ ~lazy.touched /\ lazy.runs = 0 /\ last.used = lazy.first

(***************************************************************************)
(* multiCore.Check as a fold over the children.                            *)
(***************************************************************************)
\* the cores a child of a tee puts on the CheckedEntry when it accepts level
\* l: an ioCore itself, a levelFilterCore its wrapped core, a hooked core its
\* wrapped core and then itself
ChildCores(c, l) ==
    IF ~ChildOn(c, l) THEN <<>>
    ELSE CASE c.kind = "hooked" -> <<c.kids[1].id, c.id>>
           [] c.kind = "levelFilter" -> <<c.kids[1].id>>
           [] OTHER -> <<c.id>>
RECURSIVE CoresOfAccepting(_, _, _)
CoresOfAccepting(kids, j, l) ==
    IF j > Len(kids) THEN <<>>
    ELSE ChildCores(kids[j], l) \o CoresOfAccepting(kids, j + 1, l)

\* C31: multiCore.Check calls Check on every child in child order on the same
\* accumulator: what it appends is the cores of the accepting children in
\* child order, the cores that were on ce stay, and the result is nil exactly
\* when ce was nil and no child accepted the entry.
C31_TeeCheckAppendsAcceptingChildren ==
    CheckedKind("multi") =>
        LET kids == last.core.kids
            l == last.ent.Level
        IN  /\ last.ret = CheckKids(kids, 1, last.ent, last.pre)
            /\ Added(last.pre, last.ret) = CoresOfAccepting(kids, 1, l)
            /\ ~last.pre.isNil =>
                  /\ ~last.ret.isNil
                  /\ SubSeq(last.ret.c.cores, 1, Len(last.pre.c.cores))
                        = last.pre.c.cores
            /\ last.ret.isNil <=>
                  (last.pre.isNil /\ \A j \in DOMAIN kids : ~ChildOn(kids[j], l))

(***************************************************************************)
(* Check and Enabled on nested compositions: cores built from leaf cores   *)
(* by NewTee, RegisterHooks, NewLazyWith and NewIncreaseLevelCore, two     *)
(* constructors deep, all on static levels.                                *)
(***************************************************************************)
\* the levels a core and a static level enable
CoreEnables(c) == {l \in Levels : CoreEnabled(c, l)}
LevelEnables(lv) == {l \in Levels : LevelEnabled(lv, l)}

\* NewIncreaseLevelCore(c, lv) for the levels lv: the cores it returns
IncreasedOver(c) ==
    {LevelFilterCore(c, lv) :
        lv \in {x \in StaticLevels :
                   ~NewIncreaseLevelCore(CoreEnables(c), LevelEnables(x)).isNil}}

\* the cores one constructor makes of the cores S
Composed(S) ==
    S \cup {RegisterHooks(c, HookedId(FirstCore)) : c \in S}
      \cup {LazyWith(c) : c \in S}
      \cup UNION {IncreasedOver(c) : c \in S}
      \cup {NewTee(<<a, b>>) : a \in S, b \in S}

NestLeaves == SlotLeaves(FirstCore)
NestTrees == Composed(Composed(NestLeaves))

\* ce := root.Check(ent, nil) and root.Enabled(ent.Level)
NestCheck(root, lvl, t) ==
    /\ last = NoCall
    /\ LET ent == MkEntry(lvl, t)
       IN  last' = [op |-> "Check", core |-> root, ent |-> ent,
                    pre |-> NilHandle(ce),
                    ret |-> CoreCheck(root, ent, NilHandle(ce)),
                    on |-> CoreEnabled(root, lvl)]
    /\ UNCHANGED <<ce, allocd, pooled, owner, holds, wrote, halted, given, logger,
                   atom, passed, calls, encs, built, extra>>

NextNest ==
    \E root \in NestTrees, lvl \in Levels, t \in LogThreads : NestCheck(root, lvl, t)

SpecNest == Init /\ [][NextNest]_vars

\* the kinds of the cores of a composition
RECURSIVE KindsIn(_)
KindsIn(c) == {c.kind} \cup UNION {KindsIn(c.kids[j]) : j \in 1..Len(c.kids)}

\* C32: for a core built from leaf cores by NewTee, RegisterHooks,
\* NewLazyWith and NewIncreaseLevelCore calls that returned no error, on
\* levels that do not change, root.Check(entry, nil) is non-nil exactly when
\* root.Enabled(entry.Level) is true.
C32_CheckAgreesWithEnabled ==
    (last.op = "Check" /\ last.pre.isNil /\ "on" \in DOMAIN last) =>
        (~last.ret.isNil <=> last.on)

\* a tee of a lazy core that rejects the entry and a level filter that
\* accepts it was checked
C32_Witness ==
    /\ last.op = "Check" /\ "on" \in DOMAIN last
    /\ last.core.kind = "multi"
    /\ last.core.kids[1].kind = "lazy"
    /\ ~CoreEnabled(last.core.kids[1], last.ent.Level)
    /\ last.core.kids[2].kind = "levelFilter"
    /\ last.on /\ ~last.ret.isNil

(***************************************************************************)
(* After called more than once, and After on a nil handle.                 *)
(***************************************************************************)
\* the hooks a Write has run
HooksRun == [j \in 1..Len(HookEvents(last.ev)) |-> HookEvents(last.ev)[j].hook]

\* C33: when After is called more than once on a CheckedEntry before Write,
\* Write runs the hook passed to the last of the calls, once, and no other;
\* After on a nil handle acquires an instance that carries the entry given
\* and no cores, and a Write on it runs the hook and writes to no core.
\* (A nil hook passed to the last call is no hook: Write then runs none.)
C33_LastAfterWins ==
    /\ (IsWrite /\ ~last.was.written) =>
          /\ HooksRun = (IF last.was.hook = NilHook THEN <<>> ELSE <<last.was.hook>>)
          /\ \A j \in 1..Len(HookEvents(last.ev)) :
                HookEvents(last.ev)[j].ent = last.was.Entry
          /\ last.was.cores = <<>> => CoreEvents(last.ev) = <<>>
    /\ ((\E t \in Threads : holds[t]) /\ ~given.written) =>
          /\ ce.Entry = given.Entry
          /\ ce.after = given.hook
          /\ ce.cores = given.cores

\* After was called on a nil handle and again with another hook, no core was
\* added, and Write ran the second hook
C33_Witness ==
    /\ IsWrite /\ ~last.was.written
    /\ last.was.replaced
    /\ last.was.cores = <<>>
    /\ last.was.hook = WriteThenPanic
    /\ HooksRun = <<WriteThenPanic>>
    /\ CoreEvents(last.ev) = <<>>

(***************************************************************************)
(* Errors of the encoder and of the sink in ioCore.Write.                  *)
(***************************************************************************)
\* how often a call is in the calls an ioCore.Write made
Times(cs, what) == Cardinality({j \in 1..Len(cs) : cs[j] = what})

\* C34: when EncodeEntry returns an error, ioCore.Write calls neither Write
\* nor Sync on the WriteSyncer and returns the error, and the other cores on
\* the same CheckedEntry and the other children of the same tee are written
\* all the same; when the WriteSyncer's Write returns an error, the buffer is
\* still freed exactly once and the error is returned.
C34_EncodeAndWriteErrors ==
    last.op = "CheckedEntry.Write" =>
        /\ Len(CoreEvents(last.ev)) = Len(last.cores)
        /\ \A j \in 1..Len(last.cores) :
              /\ CoreEvents(last.ev)[j].core = last.cores[j]
              /\ CoreEvents(last.ev)[j].err
                    = (IF last.ans[j] = "ok" THEN NoErr ELSE <<last.cores[j]>>)
              /\ last.ans[j] = "encodeError" =>
                    last.sinks[j] = <<"EncodeEntry">>
              /\ last.ans[j] = "writeError" =>
                    /\ Times(last.sinks[j], "out.Write") = 1
                    /\ Times(last.sinks[j], "buf.Free") = 1
                    /\ Times(last.sinks[j], "out.Sync") = 0
              /\ last.ans[j] = "ok" =>
                    /\ Times(last.sinks[j], "out.Write") = 1
                    /\ Times(last.sinks[j], "buf.Free") = 1

\* the encoder of the first core of a CheckedEntry failed and the second core
\* was written
C34_Witness ==
    /\ last.op = "CheckedEntry.Write"
    /\ Len(last.cores) = 2
    /\ last.ans[1] = "encodeError" /\ last.ans[2] = "ok"
    /\ last.sinks[1] = <<"EncodeEntry">>
    /\ Times(last.sinks[2], "out.Write") = 1
    /\ CoreEvents(last.ev)[2].err = NoErr

(***************************************************************************)
(* The accesses to the Core field of a lazyWithCore.  Enabled, Write and   *)
(* Sync are the methods of the embedded Core: the call loads d.Core and    *)
(* calls the method on what it loaded, with no synchronization; the        *)
(* function of the Once stores d.Core.  A load and a store by two          *)
(* goroutines that can both be the next step are a data race; what a       *)
(* racing load of the interface value yields is not defined.               *)
(***************************************************************************)
Forwarded == {"Enabled", "Write", "Sync"}

\* goroutine t is about to load d.Core in a forwarded method
AboutToLoad(t) == InLazy(t, "read")
\* goroutine u is about to store d.Core in the function of the Once
AboutToStore(u) == InLazy(u, "slow") /\ onceSlowRuns(lazy)
\* the load of t races with a store
Racing(t) == \E u \in Threads \ {t} : AboutToStore(u)

\* a goroutine calls d.Enabled, d.Write or d.Sync
ForwardCall(t, op) ==
    /\ lazy.Core # Nil
    /\ calls[t] = NoCallIn
    /\ calls' = [calls EXCEPT ![t] = [op |-> op, pc |-> "read"]]
    /\ UNCHANGED <<ce, allocd, pooled, owner, holds, wrote, halted, given, last,
                   logger, atom, passed, encs, built, extra>>

\* the load of d.Core and the call on the core loaded; a load that races
\* with the store yields the core the field held, or a value that is none of
\* the cores stored (torn), and the call on it does anything
ForwardRead(t, torn) ==
    /\ AboutToLoad(t)
    /\ torn => Racing(t)
    /\ last' = [op |-> calls[t].op, via |-> "lazy", t |-> t,
                used |-> IF torn THEN Nil ELSE lazy.Core,
                done |-> lazy.done, runs |-> lazy.runs, len |-> Len(built),
                raced |-> Racing(t),
                ret |-> IF torn THEN [undefined |-> TRUE]
                        ELSE Answer(calls[t].op, lazy.Core, EntryLevel(t), t)]
    /\ calls' = [calls EXCEPT ![t] = NoCallIn]
    /\ UNCHANGED <<ce, allocd, pooled, owner, holds, wrote, halted, given, logger,
                   atom, passed, encs, built, extra>>

NextRace ==
    \/ \E wrapped \in LazyWrapped : BuildCores(wrapped)
    \/ \E t \in Threads, op \in {"With", "Check"} : LazyCall(t, op)
    \/ \E t \in Threads, op \in Forwarded : ForwardCall(t, op)
    \/ \E t \in Threads, torn \in BOOLEAN : ForwardRead(t, torn)
    \/ \E t \in Threads : OnceLock(t)
    \/ \E t \in Threads : OnceSlow(t)
    \/ \E t \in Threads : OnceUnlock(t)
    \/ \E t \in Threads : LazyUse(t)

SpecRace == Init /\ [][NextRace]_vars

\* C35: no goroutine loads the lazyWithCore's reference to its wrapped core
\* in Enabled, Write or Sync while another goroutine's first With or Check is
\* storing it inside the Once: a load and the store are never both the next
\* step of their goroutines.
C35_CoreFieldAccessesOrdered ==
    \A t \in Threads : AboutToLoad(t) => ~Racing(t)

(***************************************************************************)
(* sync/atomic.Value: concurrent Store and Load calls, one step for each   *)
(* LoadPointer, CompareAndSwapPointer and StorePointer.  The values stored *)
(* are of one concrete type; a value is its data word.                     *)
(***************************************************************************)
\* the type words: nil, &firstStoreInProgress, and the type of the values
NilType == "nil"
firstStoreInProgress == "firstStoreInProgress"
ValueType == "T"

\* the nil interface value Load returns
NilValue == [typ |-> NilType, data |-> Nil]

\* faulty variant: the first store publishes the type before the data
firstStoreTypeFirst(x, k) ==
    IF k = 1 THEN [word |-> "typ", to |-> ValueType]
    ELSE [word |-> "data", to |-> x]

\* the two stores that complete the first Store:
\* StorePointer(&vp.data, vlp.data); StorePointer(&vp.typ, vlp.typ)
firstStore(x, k) ==
    IF k = 1 THEN [word |-> "data", to |-> x]
    ELSE [word |-> "typ", to |-> ValueType]

InValue(t, op, pc) ==
    calls[t] # NoCallIn /\ calls[t].op = op /\ calls[t].pc = pc

\* v.Store(x): Store(nil) panics, any other call enters the loop
StoreCall(t, x) ==
    /\ calls[t] = NoCallIn
    /\ IF x = Nil
       THEN /\ last' = [op |-> "Store", t |-> t, x |-> x, panics |-> TRUE]
            /\ UNCHANGED calls
       ELSE /\ calls' = [calls EXCEPT ![t] = [op |-> "Store", x |-> x, pc |-> "typ", k |-> 0]]
            /\ UNCHANGED last
    /\ UNCHANGED <<ce, allocd, pooled, owner, holds, wrote, halted, given, logger,
                   atom, passed, encs, built, extra>>

\* typ := LoadPointer(&vp.typ) at the head of the loop, and the branch taken
StoreLoadTyp(t) ==
    /\ InValue(t, "Store", "typ")
    /\ vp.typ # firstStoreInProgress
    /\ calls' = [calls EXCEPT ![t].pc = IF vp.typ = NilType THEN "cas" ELSE "data"]
    /\ UNCHANGED <<ce, allocd, pooled, owner, holds, wrote, halted, given, last,
                   logger, atom, passed, encs, built, extra>>

\* typ == &firstStoreInProgress: continue
StoreSpin(t) ==
    /\ InValue(t, "Store", "typ")
    /\ vp.typ = firstStoreInProgress
    /\ last' = [op |-> "Store.spin", t |-> t]
    /\ UNCHANGED <<ce, allocd, pooled, owner, holds, wrote, halted, given,
                   logger, atom, passed, calls, encs, built, extra>>

\* if !CompareAndSwapPointer(&vp.typ, nil, &firstStoreInProgress) { continue }
StoreCas(t) ==
    /\ InValue(t, "Store", "cas")
    /\ IF vp.typ = NilType
       THEN /\ vp' = [vp EXCEPT !.typ = firstStoreInProgress]
            /\ calls' = [calls EXCEPT ![t].pc = "first", ![t].k = 1]
       ELSE /\ calls' = [calls EXCEPT ![t].pc = "typ"]
            /\ UNCHANGED vp
    /\ UNCHANGED <<ce, allocd, pooled, owner, holds, wrote, halted, given, last,
                   logger, atom, passed, encs, built, buf, appended, mu, inside,
                   lazy>>

\* one StorePointer of the first Store, and the return after the second
StoreFirst(t) ==
    /\ InValue(t, "Store", "first")
    /\ LET s == firstStore(calls[t].x, calls[t].k)
       IN  vp' = IF s.word = "data"
                 THEN [vp EXCEPT !.data = s.to, !.stored = @ \cup {s.to}]
                 ELSE [vp EXCEPT !.typ = s.to]
    /\ IF calls[t].k = 1
       THEN /\ calls' = [calls EXCEPT ![t].k = 2]
            /\ UNCHANGED last
       ELSE /\ calls' = [calls EXCEPT ![t] = NoCallIn]
            /\ last' = [op |-> "Store", t |-> t, x |-> calls[t].x, panics |-> FALSE]
    /\ UNCHANGED <<ce, allocd, pooled, owner, holds, wrote, halted, given,
                   logger, atom, passed, encs, built, buf, appended, mu, inside,
                   lazy>>

\* if typ != vlp.typ { panic(...) }; StorePointer(&vp.data, vlp.data); return
StoreData(t) ==
    /\ InValue(t, "Store", "data")
    /\ vp' = [vp EXCEPT !.data = calls[t].x, !.stored = @ \cup {calls[t].x}]
    /\ calls' = [calls EXCEPT ![t] = NoCallIn]
    /\ last' = [op |-> "Store", t |-> t, x |-> calls[t].x, panics |-> FALSE]
    /\ UNCHANGED <<ce, allocd, pooled, owner, holds, wrote, halted, given,
                   logger, atom, passed, encs, built, buf, appended, mu, inside,
                   lazy>>

\* v.Load(): typ := LoadPointer(&vp.typ); if typ == nil || typ ==
\* &firstStoreInProgress { return nil }
LoadTyp(t) ==
    /\ calls[t] = NoCallIn
    /\ IF vp.typ = NilType \/ vp.typ = firstStoreInProgress
       THEN /\ last' = [op |-> "Load", t |-> t, val |-> NilValue, typ |-> vp.typ,
                        stored |-> vp.stored, loaded |-> vp.loaded]
            /\ UNCHANGED calls
       ELSE /\ calls' = [calls EXCEPT ![t] =
                           [op |-> "Load", typ |-> vp.typ, pc |-> "data"]]
            /\ UNCHANGED last
    /\ UNCHANGED <<ce, allocd, pooled, owner, holds, wrote, halted, given, logger,
                   atom, passed, encs, built, extra>>

\* data := LoadPointer(&vp.data); vlp.typ = typ; vlp.data = data; return
LoadData(t) ==
    /\ InValue(t, "Load", "data")
    /\ last' = [op |-> "Load", t |-> t,
                val |-> [typ |-> calls[t].typ, data |-> vp.data],
                typ |-> vp.typ, stored |-> vp.stored, loaded |-> vp.loaded]
    /\ vp' = [vp EXCEPT !.loaded = TRUE]
    /\ calls' = [calls EXCEPT ![t] = NoCallIn]
    /\ UNCHANGED <<ce, allocd, pooled, owner, holds, wrote, halted, given,
                   logger, atom, passed, encs, built, buf, appended, mu, inside,
                   lazy>>

\* the values the goroutines store: nil, and a value of their own
StoredBy(t) == {Nil, t}

NextValue ==
    \/ \E t \in Threads : \E x \in StoredBy(t) : StoreCall(t, x)
    \/ \E t \in Threads : StoreLoadTyp(t)
    \/ \E t \in Threads : StoreSpin(t)
    \/ \E t \in Threads : StoreCas(t)
    \/ \E t \in Threads : StoreFirst(t)
    \/ \E t \in Threads : StoreData(t)
    \/ \E t \in Threads : LoadTyp(t)
    \/ \E t \in Threads : LoadData(t)

SpecValue == Init /\ [][NextValue]_vars

\* C36: under every interleaving of Store and Load calls with values of one
\* type, Load returns nil only as long as no first Store has published the
\* type; otherwise it returns the type with a data word that a Store has
\* written, never the sentinel and never a type whose data is not yet
\* written; and after a Load has returned a value, no Load returns nil.
C36_LoadReturnsNilOrStoredValue ==
    /\ last.op = "Load" =>
          IF last.val = NilValue
          THEN /\ last.typ # ValueType
               /\ ~last.loaded
          ELSE /\ last.val.typ = ValueType
               /\ last.val.data # Nil
               /\ last.val.data \in last.stored
    /\ vp.typ = ValueType => vp.data \in vp.stored
    /\ vp.loaded => vp.typ = ValueType

\* a Load returned the value of another goroutine's later Store while the
\* first Store was another one's
C36_Witness ==
    /\ last.op = "Load"
    /\ last.val # NilValue
    /\ last.val.data # last.t
    /\ Cardinality(last.stored) >= 2
    /\ \E u \in Threads : InValue(u, "Store", "typ")

(***************************************************************************)
(* The state of an instance at acquisition.                                *)
(***************************************************************************)
\* the instance a call on a nil handle returns, whatever the pool held:
\* the entry stashed, and the one core or the one hook of the call
FreshWith(ent, cores, hook) ==
    [Entry |-> ent, ErrorOutput |-> FALSE, dirty |-> FALSE,
     after |-> hook, cores |-> cores]

\* a log statement has acquired the instance and no Write has been called on
\* it since
InProgress == owner # Nil /\ ~given.written

\* C37: AddCore or After on a nil handle returns an instance with dirty
\* false, no ErrorOutput, the given entry stashed and nothing but the core
\* or the hook of the call, whatever the instance held in the pool; until its
\* Write the instance holds the cores and the hook of this log statement
\* only, and a Write calls no core and runs no hook given before the latest
\* acquisition.
C37_AcquiredStartsFromZero ==
    /\ PoolHasIt =>
          \A t \in Threads :
             /\ \A core \in Cores :
                   AddCoreOn(ce, TRUE, EntryOf(t), core)
                       = FreshWith(EntryOf(t), <<core>>, NilHook)
             /\ \A hook \in CheckWriteActions \cup {NilHook} :
                   AfterOn(ce, TRUE, EntryOf(t), hook)
                       = FreshWith(EntryOf(t), <<>>, hook)
    /\ InProgress =>
          /\ ~ce.dirty
          /\ ce.Entry = given.Entry
          /\ ce.cores = given.cores
          /\ ce.after = given.hook
    /\ IsWrite =>
          /\ \A j \in 1..Len(CoreEvents(last.ev)) :
                /\ CoreEvents(last.ev)[j].core \in Range(last.was.cores)
                /\ CoreEvents(last.ev)[j].ent = last.was.Entry
          /\ \A j \in 1..Len(HookEvents(last.ev)) :
                HookEvents(last.ev)[j].hook = last.was.hook

\* thread 2 has acquired the instance that thread 1 wrote and still holds a
\* handle of: it holds the one core thread 2 added and is not dirty
C37_Witness ==
    /\ holds[1] /\ wrote[1]
    /\ owner = 2 /\ InProgress
    /\ pooled = 0
    /\ given.cores = <<2>>
    /\ ce = FreshWith(EntryOf(2), <<2>>, NilHook)

\* C38: an instance that rests in the pool holds no core: the Write that
\* put it there has left none of the cores of its log statement in it.
C38_PooledInstanceHoldsNoCores ==
    /\ pooled > 0 => ce.cores = <<>>
    /\ (IsWrite /\ last.put) => ce.cores = <<>>

====
